---- MODULE Spec2Model ----
(***************************************************************************)
(* Model of the resume-backend AI core: the message classifier, the LLM    *)
(* provider manager with sequential fallback, the four-phase agent         *)
(* pipeline behind POST /ai/chat and the search orchestrator behind        *)
(* POST /ai/search.  Text is a sequence of one-character strings.          *)
(***************************************************************************)
EXTENDS Integers, Sequences, FiniteSets, TLC

NULL == "None"

\* ------------------------------------------------------------------------
\* Python str primitives used by the code
\* ------------------------------------------------------------------------

Whitespace == {" ", "\t", "\n"}

UpperLetters == <<"A","B","C","D","E","F","G","H","I","J","K","L","M","N","O","P","Q","R","S","T","U","V","W","X","Y","Z">>

LowerLetters == <<"a","b","c","d","e","f","g","h","i","j","k","l","m","n","o","p","q","r","s","t","u","v","w","x","y","z">>

Digits == {"0", "1", "2", "3", "4", "5", "6", "7", "8", "9"}

WordChars == {UpperLetters[i] : i \in 1..26} \cup {LowerLetters[i] : i \in 1..26}
             \cup Digits \cup {"_"}

LowerChar(c) ==
    IF \E i \in 1..26 : UpperLetters[i] = c
    THEN LowerLetters[CHOOSE i \in 1..26 : UpperLetters[i] = c]
    ELSE c

\* str.lower()
RECURSIVE Lower(_)
Lower(s) == IF s = <<>> THEN <<>> ELSE <<LowerChar(Head(s))>> \o Lower(Tail(s))

\* str.strip(): drops the leading and the trailing whitespace
Strip(s) ==
    LET keep == {i \in 1..Len(s) : s[i] \notin Whitespace}
    IN  IF keep = {} THEN <<>>
        ELSE LET lo == CHOOSE i \in keep : \A j \in keep : i <= j
                 hi == CHOOSE i \in keep : \A j \in keep : j <= i
             IN  SubSeq(s, lo, hi)

\* str.isspace(): at least one character and all of them whitespace
IsSpace(s) == Len(s) > 0 /\ \A i \in 1..Len(s) : s[i] \in Whitespace

\* str.startswith(w)
StartsWith(s, w) == Len(s) >= Len(w) /\ SubSeq(s, 1, Len(w)) = w

\* str.endswith(w)
EndsWith(s, w) == Len(s) >= Len(w) /\ SubSeq(s, Len(s) - Len(w) + 1, Len(s)) = w

\* w in s
Contains(s, w) ==
    \E i \in 1..(Len(s) - Len(w) + 1) : SubSeq(s, i, i + Len(w) - 1) = w

\* re.search(r'\bw\b', s) for a word w of word characters
ContainsWord(s, w) ==
    \E i \in 1..(Len(s) - Len(w) + 1) :
        /\ SubSeq(s, i, i + Len(w) - 1) = w
        /\ (i = 1 \/ s[i - 1] \notin WordChars)
        /\ (i + Len(w) - 1 = Len(s) \/ s[i + Len(w)] \notin WordChars)

\* re.search(r'^(w)\s', s)
StartsWithThenSpace(s, w) ==
    StartsWith(s, w) /\ Len(s) > Len(w) /\ s[Len(w) + 1] \in Whitespace

\* re.search(r'.*(w)', s) continued from position from: '.' matches no newline
DotStarThen(s, from, w) ==
    \E i \in from..(Len(s) - Len(w) + 1) :
        /\ SubSeq(s, i, i + Len(w) - 1) = w
        /\ \A j \in from..(i - 1) : s[j] # "\n"

\* str.split(): the maximal runs of non-whitespace characters
RECURSIVE Split(_)
Split(s) ==
    LET t == Strip(s)
    IN  IF t = <<>> THEN <<>>
        ELSE LET ws == {i \in 1..Len(t) : t[i] \in Whitespace}
             IN  IF ws = {} THEN <<t>>
                 ELSE LET cut == CHOOSE i \in ws : \A j \in ws : i <= j
                      IN  <<SubSeq(t, 1, cut - 1)>> \o Split(SubSeq(t, cut, Len(t)))

\* ------------------------------------------------------------------------
\* MessageClassifier (type and intent)
\* ------------------------------------------------------------------------

QuestionStarters ==
    {<<"w","h","a","t">>, <<"w","h","o">>, <<"w","h","e","n">>, <<"w","h","e","r","e">>, <<"w","h","y">>, <<"h","o","w">>, <<"w","h","i","c","h">>, <<"w","h","o","s","e">>, <<"w","h","o","m">>}

QuestionPhrases ==
    {<<"t","e","l","l"," ","m","e">>, <<"e","x","p","l","a","i","n">>, <<"d","e","s","c","r","i","b","e">>, <<"c","a","n"," ","y","o","u">>, <<"c","o","u","l","d"," ","y","o","u">>}

Auxiliaries ==
    {<<"i","s">>, <<"a","r","e">>, <<"w","a","s">>, <<"w","e","r","e">>, <<"d","o">>, <<"d","o","e","s">>, <<"d","i","d">>, <<"c","a","n">>, <<"c","o","u","l","d">>,
     <<"s","h","o","u","l","d">>, <<"w","o","u","l","d">>, <<"w","i","l","l">>}

QuestionSearchVerbs == {<<"f","i","n","d">>, <<"s","e","a","r","c","h">>, <<"g","e","t">>, <<"s","h","o","w">>}

SearchStarters ==
    {<<"f","i","n","d">>, <<"s","e","a","r","c","h">>, <<"l","o","o","k"," ","f","o","r">>, <<"g","e","t">>, <<"s","h","o","w"," ","m","e">>, <<"l","i","s","t">>, <<"d","i","s","p","l","a","y">>}

SearchAboutStarters == {<<"c","o","n","t","a","i","n","i","n","g">>, <<"r","e","l","a","t","e","d"," ","t","o">>, <<"a","b","o","u","t">>, <<"w","i","t","h"," ","s","k","i","l","l">>}

DomainNouns ==
    {<<"p","r","o","j","e","c","t">>, <<"e","x","p","e","r","i","e","n","c","e">>, <<"c","e","r","t","i","f","i","c","a","t","e">>, <<"s","k","i","l","l">>, <<"t","e","c","h","n","o","l","o","g","y">>}

CommandStarters ==
    {<<"u","p","d","a","t","e">>, <<"c","h","a","n","g","e">>, <<"m","o","d","i","f","y">>, <<"e","d","i","t">>, <<"d","e","l","e","t","e">>, <<"r","e","m","o","v","e">>, <<"a","d","d">>,
     <<"c","r","e","a","t","e">>, <<"s","e","t">>, <<"c","o","n","f","i","g","u","r","e">>, <<"e","n","a","b","l","e">>, <<"d","i","s","a","b","l","e">>, <<"s","t","a","r","t">>, <<"s","t","o","p">>,
     <<"r","e","s","t","a","r","t">>, <<"r","u","n">>, <<"e","x","e","c","u","t","e">>}

MatchesQuestion(m) ==
    \/ \E w \in QuestionStarters : StartsWithThenSpace(m, w)
    \/ EndsWith(m, <<"?">>)
    \/ \E w \in QuestionPhrases : StartsWith(m, w)
    \/ \E w \in Auxiliaries :
          StartsWithThenSpace(m, w) /\ DotStarThen(m, Len(w) + 2, <<"?">>)
    \/ \E w \in QuestionSearchVerbs :
          StartsWith(m, w) /\ DotStarThen(m, Len(w) + 1, <<"?">>)

MatchesSearch(m) ==
    \/ \E w \in SearchStarters : StartsWith(m, w)
    \/ \E w \in {<<"f","i","l","t","e","r">>, <<"s","o","r","t">>} :
          /\ StartsWith(m, w)
          /\ \E k \in {<<"b","y">>, <<"w","i","t","h">>} : DotStarThen(m, Len(w) + 1, k)
    \/ \E w \in SearchAboutStarters : StartsWith(m, w)
    \/ \E w \in DomainNouns : ContainsWord(m, w)

\* mutant: the verb has to be the whole message
MatchesCommandExact(m) == m \in CommandStarters

MatchesCommand(m) == \E w \in CommandStarters : StartsWith(m, w)

\* mutant: the search patterns are tried before the question patterns
DetermineMessageTypeSearchFirst(m) ==
    IF MatchesSearch(m) THEN "search_request"
    ELSE IF MatchesQuestion(m) THEN "question"
    ELSE IF MatchesCommand(m) THEN "command"
    ELSE "conversation"

\* _determine_message_type: m is the lowered, stripped message
DetermineMessageType(m) ==
    IF MatchesQuestion(m) THEN "question"
    ELSE IF MatchesSearch(m) THEN "search_request"
    ELSE IF MatchesCommand(m) THEN "command"
    ELSE "conversation"

AnyIn(m, words) == \E w \in words : Contains(m, w)

\* _determine_intent
DetermineIntent(m, message_type) ==
    IF message_type = "question" THEN
        IF AnyIn(m, {<<"p","r","o","j","e","c","t">>, <<"w","o","r","k">>, <<"p","o","r","t","f","o","l","i","o">>, <<"a","p","p","l","i","c","a","t","i","o","n">>})
            THEN "project_inquiry"
        ELSE IF AnyIn(m, {<<"e","x","p","e","r","i","e","n","c","e">>, <<"j","o","b">>, <<"w","o","r","k">>, <<"c","a","r","e","e","r">>})
            THEN "experience_inquiry"
        ELSE IF AnyIn(m, {<<"c","e","r","t","i","f","i","c","a","t","e">>, <<"c","e","r","t","i","f","i","c","a","t","i","o","n">>, <<"c","o","u","r","s","e">>})
            THEN "certificate_inquiry"
        ELSE IF AnyIn(m, {<<"s","k","i","l","l">>, <<"t","e","c","h","n","o","l","o","g","y">>, <<"l","a","n","g","u","a","g","e">>, <<"f","r","a","m","e","w","o","r","k">>})
            THEN "skill_inquiry"
        ELSE IF AnyIn(m, {<<"c","o","n","t","a","c","t">>, <<"e","m","a","i","l">>, <<"p","h","o","n","e">>, <<"r","e","a","c","h">>})
            THEN "contact_inquiry"
        ELSE "general_inquiry"
    ELSE IF message_type = "search_request" THEN
        IF Contains(m, <<"p","r","o","j","e","c","t">>) THEN "search_projects"
        ELSE IF AnyIn(m, {<<"e","x","p","e","r","i","e","n","c","e">>, <<"j","o","b">>}) THEN "search_experience"
        ELSE IF Contains(m, <<"c","e","r","t","i","f","i","c","a","t","e">>) THEN "search_certificates"
        ELSE IF Contains(m, <<"s","k","i","l","l">>) THEN "search_skills"
        ELSE "general_search"
    ELSE IF message_type = "command" THEN "system_command"
    ELSE "general_conversation"

\* portfolio_keywords of _extract_keywords
PortfolioKeywords ==
    {<<"p","r","o","j","e","c","t">>, <<"p","r","o","j","e","c","t","s">>, <<"e","x","p","e","r","i","e","n","c","e">>, <<"j","o","b">>, <<"w","o","r","k">>, <<"c","e","r","t","i","f","i","c","a","t","e">>,
     <<"c","e","r","t","i","f","i","c","a","t","e","s">>, <<"s","k","i","l","l">>, <<"s","k","i","l","l","s">>, <<"e","d","u","c","a","t","i","o","n">>, <<"c","o","n","t","a","c","t">>, <<"e","m","a","i","l">>,
     <<"p","h","o","n","e">>, <<"g","i","t","h","u","b">>, <<"l","i","n","k","e","d","i","n">>, <<"w","e","b","s","i","t","e">>, <<"p","o","r","t","f","o","l","i","o">>, <<"r","e","s","u","m","e">>,
     <<"t","e","c","h","n","o","l","o","g","y">>, <<"f","r","a","m","e","w","o","r","k">>, <<"l","a","n","g","u","a","g","e">>, <<"t","o","o","l">>, <<"d","a","t","a","b","a","s","e">>, <<"a","p","i">>,
     <<"w","e","b">>, <<"m","o","b","i","l","e">>, <<"d","a","t","a">>, <<"s","c","i","e","n","c","e">>, <<"m","a","c","h","i","n","e">>, <<"l","e","a","r","n","i","n","g">>, <<"a","i">>,
     <<"a","r","t","i","f","i","c","i","a","l">>, <<"i","n","t","e","l","l","i","g","e","n","c","e">>, <<"d","e","e","p">>, <<"n","e","u","r","a","l">>, <<"n","e","t","w","o","r","k">>}

\* technologies of _extract_keywords
KeywordTechnologies ==
    {<<"p","y","t","h","o","n">>, <<"j","a","v","a","s","c","r","i","p","t">>, <<"t","y","p","e","s","c","r","i","p","t">>, <<"r","e","a","c","t">>, <<"v","u","e">>, <<"a","n","g","u","l","a","r">>,
     <<"n","o","d","e">>, <<"e","x","p","r","e","s","s">>, <<"f","a","s","t","a","p","i">>, <<"d","j","a","n","g","o">>, <<"f","l","a","s","k">>, <<"p","o","s","t","g","r","e","s","q","l">>,
     <<"m","y","s","q","l">>, <<"m","o","n","g","o","d","b">>, <<"r","e","d","i","s">>, <<"d","o","c","k","e","r">>, <<"k","u","b","e","r","n","e","t","e","s">>, <<"a","w","s">>,
     <<"g","c","p">>, <<"a","z","u","r","e">>, <<"t","e","n","s","o","r","f","l","o","w">>, <<"p","y","t","o","r","c","h">>, <<"s","c","i","k","i","t">>, <<"p","a","n","d","a","s">>,
     <<"n","u","m","p","y">>, <<"m","a","t","p","l","o","t","l","i","b">>, <<"s","e","a","b","o","r","n">>, <<"p","l","o","t","l","y">>}

\* _extract_keywords: list(set(keywords)), kept as the set
ExtractKeywords(message) ==
    LET message_lower == Lower(message)
    IN  {k \in PortfolioKeywords \cup KeywordTechnologies : Contains(message_lower, k)}

\* technologies of _extract_entities, in list order
EntityTechnologies ==
    <<<<"p","y","t","h","o","n">>, <<"j","a","v","a","s","c","r","i","p","t">>, <<"r","e","a","c","t">>, <<"n","o","d","e">>, <<"f","a","s","t","a","p","i">>, <<"d","j","a","n","g","o">>,
      <<"p","o","s","t","g","r","e","s","q","l">>, <<"m","o","n","g","o","d","b">>, <<"d","o","c","k","e","r">>, <<"k","u","b","e","r","n","e","t","e","s">>, <<"a","w","s">>, <<"g","c","p">>,
      <<"t","e","n","s","o","r","f","l","o","w">>, <<"p","y","t","o","r","c","h">>, <<"s","c","i","k","i","t">>, <<"p","a","n","d","a","s">>, <<"n","u","m","p","y">>>>

\* re.findall(r'\b(19|20)\d{2}\b', message): the group of every match
Years(message) ==
    LET IsMatch(i) ==
            /\ i + 3 <= Len(message)
            /\ SubSeq(message, i, i + 1) \in {<<"1","9">>, <<"2","0">>}
            /\ message[i + 2] \in Digits /\ message[i + 3] \in Digits
            /\ (i = 1 \/ message[i - 1] \notin WordChars)
            /\ (i + 3 = Len(message) \/ message[i + 4] \notin WordChars)
        starts == SelectSeq([i \in 1..Len(message) |-> i], IsMatch)
    IN  [k \in DOMAIN starts |-> SubSeq(message, starts[k], starts[k] + 1)]

\* _extract_entities: a key with an empty list stands for an absent key; the
\* e-mail pattern needs an '@', which no message of the model holds
ExtractEntities(message) ==
    LET message_lower == Lower(message)
    IN  [technologies |-> SelectSeq(EntityTechnologies,
                                    LAMBDA tech : Contains(message_lower, tech)),
         years |-> Years(message)]

\* a float of _calculate_confidence: tenths tenths, or the double just below
Float(tenths, below) == [tenths |-> tenths, below |-> below]

\* c + inc in IEEE-754 double arithmetic, for the sums _calculate_confidence
\* can form: these operands give the double just below the decimal sum
FloatAdd(c, inc) ==
    Float(c.tenths + inc,
          <<c.tenths, c.below, inc>> \in
              {<<7, FALSE, 1>>, <<7, FALSE, 2>>, <<9, TRUE, 1>>, <<9, TRUE, 2>>,
               <<11, TRUE, 2>>, <<14, FALSE, 2>>})

\* a <= b for these floats
FloatLeq(a, b) ==
    \/ a.tenths < b.tenths
    \/ a.tenths = b.tenths /\ (a.below \/ ~b.below)

\* mutant: the sum is returned as it is
ClampConfidenceNone(confidence) == confidence

\* min(confidence, 1.0)
ClampConfidence(confidence) ==
    IF FloatLeq(confidence, Float(10, FALSE)) THEN confidence ELSE Float(10, FALSE)

\* _calculate_confidence: m is the lowered, stripped message
CalculateConfidence(m, keywords) ==
    LET AddIf(c, cond, inc) == IF cond THEN FloatAdd(c, inc) ELSE c
        base == Float(5, FALSE)
        c1 == AddIf(base, EndsWith(m, <<"?">>), 3)
        c2 == AddIf(c1, \E w \in {<<"w","h","a","t">>, <<"w","h","o">>, <<"w","h","e","n">>, <<"w","h","e","r","e">>, <<"w","h","y">>, <<"h","o","w">>} :
                            StartsWith(m, w), 2)
        c3 == AddIf(c2, AnyIn(m, {<<"f","i","n","d">>, <<"s","e","a","r","c","h">>, <<"g","e","t">>, <<"s","h","o","w">>, <<"l","i","s","t">>}), 2)
        n == Cardinality(keywords)
        c4 == AddIf(c3, n > 0, IF n < 3 THEN n ELSE 3)
        c5 == AddIf(c4, AnyIn(m, QuestionStarters), 2)
    IN  ClampConfidence(c5)

\* classify_message
ClassifyMessage(message) ==
    LET message_lower == Strip(Lower(message))
        message_type  == DetermineMessageType(message_lower)
        keywords      == ExtractKeywords(message)
    IN  [message_type |-> message_type,
         intent       |-> DetermineIntent(message_lower, message_type),
         keywords     |-> keywords,
         entities     |-> ExtractEntities(message),
         confidence   |-> CalculateConfidence(message_lower, keywords)]

\* ------------------------------------------------------------------------
\* Bounds and input sets
\* ------------------------------------------------------------------------

\* concurrently served requests (tasks)
NumRequests == 2

Requests == 1..NumRequests

\* LLMProvider enum
LLMProvider == {"groq", "openai", "anthropic", "local"}

\* LLMProviderManager.provider_priority
provider_priority == <<"groq", "openai", "anthropic">>

\* errors an adapter call can raise (API error, per-call timeout)
AdapterErrors == {"api_error", "timeout"}

T_empty == <<>>

T_blank == <<" "," "," "," "," "," "," "," "," "," "," "," ">>

T_ten == <<"0","1","2","3","4","5","6","7","8","9">>

T_padded_ten == <<" "," ","0","1","2","3","4","5","6","7","8","9","\n">>

T_eleven == <<"h","e","l","l","o"," ","w","o","r","l","d">>

T_project == <<"S","e","e"," ","m","y"," ","P","r","o","j","e","c","t","s">>

T_search == <<"S","e","a","r","c","h"," ","r","e","s","u","l","t","s">>

\* texts an LLM can answer with
ResponseTexts == {T_empty, T_blank, T_ten, T_padded_ten, T_eleven, T_project, T_search}

M_question == <<"W","h","a","t"," ","p","r","o","j","e","c","t","s"," ","h","a","v","e"," ","y","o","u"," ","w","o","r","k","e","d"," ","o","n","?">>

M_search == <<"S","h","o","w"," ","m","e"," ","y","o","u","r"," ","e","x","p","e","r","i","e","n","c","e"," ","w","i","t","h"," ","P","y","t","h","o","n">>

M_hello == <<"h","e","l","l","o"," ","t","h","e","r","e">>

M_hi == <<"h","i">>

\* chat messages
Messages == {M_question, M_hello, M_hi}

Range(s) == {s[i] : i \in 1..Len(s)}

\* ------------------------------------------------------------------------
\* State
\* ------------------------------------------------------------------------

VARIABLES
    providers,      \* LLMProviderManager.providers: provider id -> adapter
    files,          \* the JSON files of the data directory: name -> content
    pc,             \* per request: where its handler is
    request,        \* per request: the request body
    steps,          \* per request: the outputs of the pipeline phases so far
    frame,          \* per request: the running generate_response call
    heap,           \* per request: the LLMResponse objects created for it
    search,         \* per request: the locals of semantic_search
    result,         \* per request: the HTTP response of the handler
    manager_log,    \* per request: history of the Provider Manager's events
    phase_log       \* per request: history of phase starts and ends

vars == <<providers, files, pc, request, steps, frame, heap, search, result,
          manager_log, phase_log>>

\* ------------------------------------------------------------------------
\* Provider adapters (GroqProvider, OpenAIProvider, AnthropicProvider)
\* ------------------------------------------------------------------------

\* LLMProviderBase.validate_config
ValidateConfig(config) == config.api_key # "" /\ config.model # ""

\* XProvider.__init__: the client handle exists iff the configuration is valid
\* and importing the SDK and building its client succeeded (sdk_ok)
NewAdapter(config, sdk_ok) ==
    [config |-> config,
     client |-> IF ValidateConfig(config) /\ sdk_ok THEN "client" ELSE NULL]

\* mutant: the client handle is not looked at
IsAvailableKeyOnly(adapter) ==
    adapter.config.api_key # "" /\ adapter.config.model # ""

\* XProvider.is_available
IsAvailable(adapter) ==
    /\ adapter.client # NULL
    /\ adapter.config.api_key # ""
    /\ adapter.config.model # ""

\* the model names _initialize_providers configures
ModelOf(p) ==
    CASE p = "groq" -> "llama3-8b-8192"
      [] p = "openai" -> "gpt-3.5-turbo"
      [] p = "anthropic" -> "claude-3-sonnet-20240229"

\* LLMAgent._initialize_providers with add_provider: a provider is registered
\* iff its API key is set in the settings
InitializeProviders(api_keys, sdk_ok) ==
    [p \in {q \in Range(provider_priority) : api_keys[q] # ""} |->
        NewAdapter([provider |-> p, api_key |-> api_keys[p], model |-> ModelOf(p)],
                   sdk_ok[p])]

\* ------------------------------------------------------------------------
\* LLMProviderManager.generate_response
\* ------------------------------------------------------------------------

\* the loop over provider_priority that appends the remaining providers
RECURSIVE AddRemaining(_, _, _)
AddRemaining(provs, to_try, i) ==
    IF i > Len(provider_priority) THEN to_try
    ELSE LET p == provider_priority[i]
         IN  AddRemaining(provs,
                 IF p \notin Range(to_try) /\ p \in DOMAIN provs /\ IsAvailable(provs[p])
                 THEN Append(to_try, p) ELSE to_try,
                 i + 1)

\* mutant: the availability of the preferred provider is not checked
PreferredFirstUnchecked(provs, preferred) ==
    IF preferred # NULL /\ preferred \in DOMAIN provs THEN <<preferred>> ELSE <<>>

\* the preferred provider goes first if it is registered and available
PreferredFirst(provs, preferred) ==
    IF preferred # NULL /\ preferred \in DOMAIN provs /\ IsAvailable(provs[preferred])
    THEN <<preferred>> ELSE <<>>

\* providers_to_try
ProvidersToTry(provs, preferred) ==
    AddRemaining(provs, PreferredFirst(provs, preferred), 1)

NoError == [type |-> "none", last_error |-> NULL]

Pending == [kind |-> "pending", ref |-> 0, error |-> NoError]

Returned(ref) == [kind |-> "return", ref |-> ref, error |-> NoError]

Raised(error) == [kind |-> "raise", ref |-> 0, error |-> error]

NoFrame == [caller |-> NULL, prompt |-> NULL, call |-> 0, providers_to_try |-> <<>>, idx |-> 0,
            last_error |-> NULL, outcome |-> Pending]

\* "No available LLM providers"
NoProvidersError == [type |-> "NoAvailableProviders", last_error |-> NULL]

\* mutant: the last error is dropped from the final error
AllFailedErrorNoCause(last_error) == [type |-> "AllProvidersFailed", last_error |-> NULL]

\* "All LLM providers failed. Last error: {last_error}"
AllFailedError(last_error) == [type |-> "AllProvidersFailed", last_error |-> last_error]

\* the frame after generate_response has built its candidates: the call either
\* raises at once (no candidates) or awaits the first candidate's adapter
InvokeManager(r, caller, prompt, preferred) ==
    LET to_try == ProvidersToTry(providers, preferred)
    IN  [caller |-> caller,
         prompt |-> prompt,
         call |-> frame[r].call + 1,
         providers_to_try |-> to_try,
         idx |-> IF to_try = <<>> THEN 0 ELSE 1,
         last_error |-> NULL,
         outcome |-> IF to_try = <<>> THEN Raised(NoProvidersError) ELSE Pending]

InvokeEvents(f, preferred) ==
    <<[ev |-> "invoke", call |-> f.call, caller |-> f.caller, prompt |-> f.prompt,
       preferred |-> preferred,
       providers_to_try |-> f.providers_to_try]>>
    \o (IF f.outcome.kind = "raise"
        THEN <<[ev |-> "raise", call |-> f.call, error |-> f.outcome.error]>>
        ELSE <<[ev |-> "call", call |-> f.call, provider |-> f.providers_to_try[1]]>>)

\* where a request continues when its generate_response call has ended
ResumePc(caller) ==
    CASE caller = "response_generation" -> "generation_resume"
      [] caller = "validation" -> "validation_resume"
      [] caller = "navigation_summary" -> "summary_resume"
      [] caller = "information_answer" -> "answer_resume"

\* the pc after a call of generate_response was started with frame f
PcAfterInvoke(f) == IF f.outcome.kind = "raise" THEN ResumePc(f.caller) ELSE "manager"

\* the LLMResponse an adapter builds from the text of the API's answer
NewLLMResponse(p, text) ==
    [response |-> text, provider |-> p, model |-> providers[p].config.model,
     sources |-> [set |-> FALSE, items |-> <<>>]]

\* the awaited adapter call of the current candidate returns text: the manager
\* returns its LLMResponse at once
AdapterReturns(r) ==
    /\ pc[r] = "manager"
    /\ \E text \in ResponseTexts :
        LET f == frame[r]
            p == f.providers_to_try[f.idx]
            ref == Len(heap[r]) + 1
        IN  /\ heap' = [heap EXCEPT ![r] = Append(@, NewLLMResponse(p, text))]
            /\ frame' = [frame EXCEPT ![r].outcome = Returned(ref)]
            /\ manager_log' = [manager_log EXCEPT ![r] = @ \o
                   <<[ev |-> "ok", call |-> f.call, provider |-> p, text |-> text],
                     [ev |-> "return", call |-> f.call, ref |-> ref]>>]
            /\ pc' = [pc EXCEPT ![r] = ResumePc(f.caller)]
    /\ UNCHANGED <<providers, files, request, steps, search, result, phase_log>>

\* mutant: the loop jumps to the last candidate
NextCandidateLast(f) == Len(f.providers_to_try)

\* mutant: a failed candidate is called again
NextCandidateAgain(f) == f.idx

\* the for loop over providers_to_try: the candidate tried after candidate idx
NextCandidate(f) == f.idx + 1

\* the awaited adapter call raises: the error is recorded and the next candidate
\* is called, or the manager raises when there is none left
AdapterRaises(r) ==
    /\ pc[r] = "manager"
    /\ \E error \in AdapterErrors :
        LET f == frame[r]
            p == f.providers_to_try[f.idx]
            failed == [ev |-> "fail", call |-> f.call, provider |-> p, error |-> error]
        IN  IF f.idx < Len(f.providers_to_try)
            THEN /\ frame' = [frame EXCEPT ![r].idx = NextCandidate(f),
                                           ![r].last_error = error]
                 /\ manager_log' = [manager_log EXCEPT ![r] = @ \o
                        <<failed, [ev |-> "call", call |-> f.call,
                                   provider |-> f.providers_to_try[NextCandidate(f)]]>>]
                 /\ pc' = pc
            ELSE /\ frame' = [frame EXCEPT
                        ![r].last_error = error,
                        ![r].outcome = Raised(AllFailedError(error))]
                 /\ manager_log' = [manager_log EXCEPT ![r] = @ \o
                        <<failed, [ev |-> "raise", call |-> f.call,
                                   error |-> AllFailedError(error)]>>]
                 /\ pc' = [pc EXCEPT ![r] = ResumePc(f.caller)]
    /\ UNCHANGED <<providers, files, request, steps, heap, search, result, phase_log>>

\* ------------------------------------------------------------------------
\* Data repository (load_json_data, DataService.get_*_data)
\* ------------------------------------------------------------------------

FileNames == {"intro", "projects", "projects_new", "jobs", "certificates"}

FileOk(records) == [state |-> "ok", records |-> records]

FileMissing == [state |-> "missing", records |-> <<>>]

FileCorrupt == [state |-> "corrupt", records |-> <<>>]

\* load_json_data raises when the file is missing or holds malformed JSON
LoadRaises(name) == files[name].state # "ok"

\* the exception load_json_data raises: json.JSONDecodeError(msg) lacks the
\* arguments doc and pos, so the handler of the decode error raises TypeError
LoadError(name) ==
    [type |-> IF files[name].state = "missing" THEN "FileNotFoundError"
              ELSE "TypeError",
     last_error |-> NULL]

\* DataService.get_<name>_data when it does not raise
GetData(name) == files[name].records

Project_api ==
    [id |-> <<"r","e","s","u","m","e","-","a","p","i">>, name |-> <<"R","e","s","u","m","e"," ","A","P","I">>, description |-> <<"a"," ","p","r","o","j","e","c","t"," ","o","n"," ","f","a","s","t","a","p","i">>,
     skills |-> <<<<"p","y","t","h","o","n">>>>, category |-> <<"w","e","b">>, featured |-> FALSE]

Project_bot ==
    [id |-> <<"c","h","a","t","-","b","o","t">>, name |-> <<"c","h","a","t"," ","b","o","t">>, description |-> <<"l","l","m"," ","p","r","o","j","e","c","t">>,
     skills |-> <<<<"p","y","t","h","o","n">>, <<"g","r","o","q">>>>, category |-> <<"a","i">>, featured |-> TRUE]

Project_site ==
    [id |-> <<"p","o","r","t","f","o","l","i","o">>, name |-> <<"P","o","r","t","f","o","l","i","o">>, description |-> <<"m","y"," ","P","r","o","j","e","c","t"," ","s","i","t","e">>,
     skills |-> <<<<"r","e","a","c","t">>>>, category |-> <<"w","e","b">>, featured |-> TRUE]

Project_new ==
    [id |-> <<"v","i","s","i","o","n">>, name |-> <<"V","i","s","i","o","n">>, description |-> <<"i","m","a","g","e"," ","m","o","d","e","l">>,
     skills |-> <<<<"p","y","t","o","r","c","h">>>>, category |-> <<"a","i">>, featured |-> FALSE]

Job_now ==
    [id |-> <<"a","c","m","e">>, title |-> <<"E","n","g","i","n","e","e","r">>, company |-> <<"A","c","m","e">>, description |-> <<"p","y","t","h","o","n"," ","s","e","r","v","i","c","e","s">>,
     skills |-> <<<<"p","y","t","h","o","n">>>>, isCurrent |-> TRUE]

Job_past ==
    [id |-> <<"i","n","i","t","e","c","h">>, title |-> <<"I","n","t","e","r","n">>, company |-> <<"I","n","i","t","e","c","h">>, description |-> <<"p","r","o","j","e","c","t"," ","s","u","p","p","o","r","t">>,
     skills |-> <<<<"e","x","c","e","l">>>>, isCurrent |-> FALSE]

Cert_ml ==
    [name |-> <<"M","L"," ","b","a","s","i","c","s">>, provider |-> <<"C","o","u","r","s","e","r","a">>, field |-> <<"a","i">>,
     skills |-> <<<<"p","y","t","h","o","n">>>>]

Cert_web ==
    [name |-> <<"W","e","b"," ","d","e","v">>, provider |-> <<"U","d","e","m","y">>, field |-> <<"w","e","b">>,
     skills |-> <<<<"r","e","a","c","t">>>>]

Intro_ok == <<[name |-> <<"A","d","i","t","y","a">>, title |-> <<"D","e","v","e","l","o","p","e","r">>, about |-> <<"b","u","i","l","d","s"," ","b","a","c","k","e","n","d","s">>]>>

AllFilesOk ==
    [n \in FileNames |->
        CASE n = "intro" -> FileOk(Intro_ok)
          [] n = "projects" -> FileOk(<<Project_api, Project_bot, Project_site>>)
          [] n = "projects_new" -> FileOk(<<Project_new>>)
          [] n = "jobs" -> FileOk(<<Job_past, Job_now>>)
          [] n = "certificates" -> FileOk(<<Cert_ml, Cert_web>>)]

\* the data directories a chat request is served from
ChatFileConfigs ==
    {AllFilesOk, [AllFilesOk EXCEPT !["projects"] = FileMissing]}

\* ------------------------------------------------------------------------
\* LLMAgent: the four-phase pipeline behind POST /ai/chat
\* ------------------------------------------------------------------------

NoRequest ==
    [kind |-> "none", message |-> <<>>, provider |-> NULL,
     include_sections |-> <<>>, limit |-> 0, offset |-> 0]

ChatRequest(message, provider) ==
    [kind |-> "chat", message |-> message, provider |-> provider,
     include_sections |-> <<>>, limit |-> 0, offset |-> 0]

NoClassification == [message_type |-> NULL, intent |-> NULL]

NoSteps ==
    [categorization |-> [done |-> FALSE, classification |-> NoClassification],
     generation |-> [done |-> FALSE, response |-> <<>>, llm_response |-> 0],
     validation |-> [done |-> FALSE, validated_response |-> <<>>, llm_response |-> 0,
                     is_valid |-> FALSE],
     implementation |-> [done |-> FALSE, llm_response |-> 0]]

NoResult == [status |-> 0]

NoSearch == [started |-> FALSE]

\* HTTPException(status_code=500, detail=...) raised by the route handler
Http500(error) == [status |-> 500, detail |-> error]

PhaseStart(phase) == [phase |-> phase, ev |-> "start"]

PhaseEnd(phase) == [phase |-> phase, ev |-> "end"]

PhaseRaise(phase) == [phase |-> phase, ev |-> "raise"]

\* POST /ai/chat: chat_with_ai awaits ai_service.process_request(request)
ChatWithAi(r) ==
    /\ pc[r] = "idle"
    /\ \E message \in Messages, provider \in LLMProvider \cup {NULL} :
        request' = [request EXCEPT ![r] = ChatRequest(message, provider)]
    /\ pc' = [pc EXCEPT ![r] = "categorization"]
    /\ UNCHANGED <<providers, files, steps, frame, heap, search, result,
                   manager_log, phase_log>>

\* mutant: the handler answers 200 with what the pipeline has so far
AbortChatPartial(r, events, error) ==
    /\ pc' = [pc EXCEPT ![r] = "done"]
    /\ result' = [result EXCEPT ![r] = [status |-> 200, detail |-> error]]
    /\ phase_log' = [phase_log EXCEPT ![r] = @ \o events]

\* an exception leaves process_request: chat_with_ai turns it into HTTP 500
AbortChat(r, events, error) ==
    /\ pc' = [pc EXCEPT ![r] = "done"]
    /\ result' = [result EXCEPT ![r] = Http500(error)]
    /\ phase_log' = [phase_log EXCEPT ![r] = @ \o events]

\* Phase 1: _phase_categorization
PhaseCategorization(r) ==
    /\ pc[r] = "categorization"
    /\ steps' = [steps EXCEPT ![r].categorization =
                    [done |-> TRUE,
                     classification |-> ClassifyMessage(request[r].message)]]
    /\ pc' = [pc EXCEPT ![r] = "generation"]
    /\ phase_log' = [phase_log EXCEPT ![r] = @ \o
                        <<PhaseStart("categorization"), PhaseEnd("categorization")>>]
    /\ UNCHANGED <<providers, files, request, frame, heap, search, result, manager_log>>

\* _create_prompt: the data file it reads for the classification, if any
PromptFile(classification) ==
    IF classification.message_type = "question"
    THEN CASE classification.intent = "project_inquiry" -> "projects"
           [] classification.intent = "experience_inquiry" -> "jobs"
           [] classification.intent = "certificate_inquiry" -> "certificates"
           [] OTHER -> NULL
    ELSE NULL

\* Phase 2, up to its await: _phase_response_generation creates the prompt from
\* the categorization output and calls generate_response with the request's
\* preferred provider
PhaseResponseGeneration(r) ==
    /\ pc[r] = "generation"
    /\ LET file == PromptFile(steps[r].categorization.classification)
           f == InvokeManager(r, "response_generation", "context_prompt", request[r].provider)
       IN  IF file # NULL /\ LoadRaises(file)
           THEN /\ AbortChat(r, <<PhaseStart("response_generation"),
                                PhaseRaise("response_generation")>>, LoadError(file))
                /\ UNCHANGED <<frame, manager_log>>
           ELSE /\ frame' = [frame EXCEPT ![r] = f]
                /\ manager_log' = [manager_log EXCEPT ![r] =
                                      @ \o InvokeEvents(f, request[r].provider)]
                /\ pc' = [pc EXCEPT ![r] = PcAfterInvoke(f)]
                /\ phase_log' = [phase_log EXCEPT ![r] =
                                    Append(@, PhaseStart("response_generation"))]
                /\ UNCHANGED result
    /\ UNCHANGED <<providers, files, request, steps, heap, search>>

\* Phase 2, after its await: the generation output holds the manager's response
GenerationResume(r) ==
    /\ pc[r] = "generation_resume"
    /\ LET out == frame[r].outcome
       IN  IF out.kind = "raise"
           THEN /\ AbortChat(r, <<PhaseRaise("response_generation")>>, out.error)
                /\ UNCHANGED steps
           ELSE /\ steps' = [steps EXCEPT ![r].generation =
                                [done |-> TRUE,
                                 response |-> heap[r][out.ref].response,
                                 llm_response |-> out.ref]]
                /\ pc' = [pc EXCEPT ![r] = "validation"]
                /\ phase_log' = [phase_log EXCEPT ![r] =
                                    Append(@, PhaseEnd("response_generation"))]
                /\ UNCHANGED result
    /\ UNCHANGED <<providers, files, request, frame, heap, search, manager_log>>

\* mutant: the length is taken of the untrimmed text
IsValidResponseUntrimmed(response) == Len(response) > 10 /\ ~IsSpace(response)

\* is_valid of _phase_validation
IsValidResponse(response) == Len(Strip(response)) > 10 /\ ~IsSpace(response)

\* mutant: the regeneration asks for the provider the request prefers
PhaseValidationPreferred(r) ==
    /\ pc[r] = "validation"
    /\ LET generation == steps[r].generation
           is_valid == IsValidResponse(generation.response)
           f == InvokeManager(r, "validation", "fallback_prompt", request[r].provider)
       IN  IF is_valid
           THEN /\ steps' = [steps EXCEPT ![r].validation =
                                [done |-> TRUE,
                                 validated_response |-> generation.response,
                                 llm_response |-> generation.llm_response,
                                 is_valid |-> TRUE]]
                /\ pc' = [pc EXCEPT ![r] = "implementation"]
                /\ phase_log' = [phase_log EXCEPT ![r] = @ \o
                                    <<PhaseStart("validation"), PhaseEnd("validation")>>]
                /\ UNCHANGED <<frame, manager_log>>
           ELSE /\ frame' = [frame EXCEPT ![r] = f]
                /\ manager_log' = [manager_log EXCEPT ![r] = @ \o InvokeEvents(f, request[r].provider)]
                /\ pc' = [pc EXCEPT ![r] = PcAfterInvoke(f)]
                /\ phase_log' = [phase_log EXCEPT ![r] =
                                    Append(@, PhaseStart("validation"))]
                /\ UNCHANGED steps
    /\ UNCHANGED <<providers, files, request, heap, search, result>>

\* Phase 3, up to its await: _phase_validation checks the generation output and
\* regenerates with the fallback prompt and no preferred provider when invalid
PhaseValidation(r) ==
    /\ pc[r] = "validation"
    /\ LET generation == steps[r].generation
           is_valid == IsValidResponse(generation.response)
           f == InvokeManager(r, "validation", "fallback_prompt", NULL)
       IN  IF is_valid
           THEN /\ steps' = [steps EXCEPT ![r].validation =
                                [done |-> TRUE,
                                 validated_response |-> generation.response,
                                 llm_response |-> generation.llm_response,
                                 is_valid |-> TRUE]]
                /\ pc' = [pc EXCEPT ![r] = "implementation"]
                /\ phase_log' = [phase_log EXCEPT ![r] = @ \o
                                    <<PhaseStart("validation"), PhaseEnd("validation")>>]
                /\ UNCHANGED <<frame, manager_log>>
           ELSE /\ frame' = [frame EXCEPT ![r] = f]
                /\ manager_log' = [manager_log EXCEPT ![r] = @ \o InvokeEvents(f, NULL)]
                /\ pc' = [pc EXCEPT ![r] = PcAfterInvoke(f)]
                /\ phase_log' = [phase_log EXCEPT ![r] =
                                    Append(@, PhaseStart("validation"))]
                /\ UNCHANGED steps
    /\ UNCHANGED <<providers, files, request, heap, search, result>>

\* mutant: the validity test is applied again to the regenerated response
ValidationResumeRechecked(r) ==
    /\ pc[r] = "validation_resume"
    /\ LET out == frame[r].outcome
       IN  IF out.kind = "raise"
           THEN /\ AbortChat(r, <<PhaseRaise("validation")>>, out.error)
                /\ UNCHANGED steps
           ELSE /\ steps' = [steps EXCEPT ![r].validation =
                                [done |-> TRUE,
                                 validated_response |-> heap[r][out.ref].response,
                                 llm_response |-> out.ref,
                                 is_valid |-> IsValidResponse(heap[r][out.ref].response)]]
                /\ pc' = [pc EXCEPT ![r] = "implementation"]
                /\ phase_log' = [phase_log EXCEPT ![r] = Append(@, PhaseEnd("validation"))]
                /\ UNCHANGED result
    /\ UNCHANGED <<providers, files, request, frame, heap, search, manager_log>>

\* Phase 3, after its await: the regenerated response replaces the invalid one
ValidationResume(r) ==
    /\ pc[r] = "validation_resume"
    /\ LET out == frame[r].outcome
       IN  IF out.kind = "raise"
           THEN /\ AbortChat(r, <<PhaseRaise("validation")>>, out.error)
                /\ UNCHANGED steps
           ELSE /\ steps' = [steps EXCEPT ![r].validation =
                                [done |-> TRUE,
                                 validated_response |-> heap[r][out.ref].response,
                                 llm_response |-> out.ref,
                                 is_valid |-> FALSE]]
                /\ pc' = [pc EXCEPT ![r] = "implementation"]
                /\ phase_log' = [phase_log EXCEPT ![r] = Append(@, PhaseEnd("validation"))]
                /\ UNCHANGED result
    /\ UNCHANGED <<providers, files, request, frame, heap, search, manager_log>>

\* mutant: the test for the source counts compares the text as written
MentionsSourcesCaseSensitive(response) ==
    Contains(response, <<"s","e","a","r","c","h">>) \/ Contains(response, <<"p","r","o","j","e","c","t">>)

\* the test of _phase_implementation for attaching the source counts
MentionsSources(response) ==
    Contains(Lower(response), <<"s","e","a","r","c","h">>) \/ Contains(Lower(response), <<"p","r","o","j","e","c","t">>)

\* the files _phase_implementation counts, in the order it reads them
SourceFiles == <<"projects", "jobs", "certificates">>

SourceType(name) == IF name = "jobs" THEN "experience" ELSE name

SourceCounts ==
    [i \in 1..Len(SourceFiles) |->
        [type |-> SourceType(SourceFiles[i]), count |-> Len(GetData(SourceFiles[i]))]]

\* mutant: the generation output is handed to the implementation phase
ImplementationInputGeneration(r) ==
    [done |-> TRUE,
     validated_response |-> steps[r].generation.response,
     llm_response |-> steps[r].generation.llm_response,
     is_valid |-> TRUE]

\* process_request hands the validation output to the implementation phase
ImplementationInput(r) == steps[r].validation

\* Phase 4: _phase_implementation sets the sources of the validated response
PhaseImplementation(r) ==
    /\ pc[r] = "implementation"
    /\ LET validation == ImplementationInput(r)
           mentions == MentionsSources(validation.validated_response)
           failing == {i \in 1..Len(SourceFiles) : LoadRaises(SourceFiles[i])}
       IN  IF mentions /\ failing # {}
           THEN /\ AbortChat(r, <<PhaseStart("implementation"), PhaseRaise("implementation")>>,
                       LoadError(SourceFiles[CHOOSE i \in failing : \A j \in failing : i <= j]))
                /\ UNCHANGED <<steps, heap>>
           ELSE /\ heap' = [heap EXCEPT ![r][validation.llm_response].sources =
                               [set |-> TRUE,
                                items |-> IF mentions THEN SourceCounts ELSE <<>>]]
                /\ steps' = [steps EXCEPT ![r].implementation =
                                [done |-> TRUE, llm_response |-> validation.llm_response]]
                /\ pc' = [pc EXCEPT ![r] = "respond"]
                /\ phase_log' = [phase_log EXCEPT ![r] = @ \o
                        <<PhaseStart("implementation"), PhaseEnd("implementation")>>]
                /\ UNCHANGED result
    /\ UNCHANGED <<providers, files, request, frame, search, manager_log>>

\* the steps of the AgentExecution trace process_request assembles
ExecutionSteps(r) ==
    <<[phase |-> "categorization",
       input |-> [message |-> request[r].message],
       output |-> steps[r].categorization],
      [phase |-> "response_generation",
       input |-> [message |-> request[r].message,
                  classification |-> steps[r].categorization],
       output |-> steps[r].generation],
      [phase |-> "validation",
       input |-> [response |-> steps[r].generation.response],
       output |-> steps[r].validation],
      [phase |-> "implementation",
       input |-> [validated_response |-> steps[r].validation.validated_response],
       output |-> steps[r].implementation]>>

\* mutant: the texts of all the responses generated for the request are merged
AIResponseMerged(r) ==
    LET final_response == heap[r][steps[r].implementation.llm_response]
    IN  [response |-> IF Len(heap[r]) > 1
                      THEN heap[r][1].response \o heap[r][2].response
                      ELSE final_response.response,
         message_type |-> steps[r].categorization.classification.message_type,
         sources |-> final_response.sources,
         provider |-> final_response.provider,
         model |-> final_response.model,
         agent_execution |-> [steps |-> ExecutionSteps(r),
                              final_response |-> final_response]]

\* mutant: the final response is kept in one slot of the shared agent, which
\* holds that of the first request that finished its implementation phase
AIResponseShared(r) ==
    LET q == CHOOSE q \in Requests :
                /\ steps[q].implementation.done
                /\ \A o \in Requests : steps[o].implementation.done => q <= o
        final_response == heap[q][steps[q].implementation.llm_response]
    IN  [response |-> final_response.response,
         message_type |-> steps[r].categorization.classification.message_type,
         sources |-> final_response.sources,
         provider |-> final_response.provider,
         model |-> final_response.model,
         agent_execution |-> [steps |-> ExecutionSteps(r),
                              final_response |-> final_response]]

\* the AIResponse process_request returns
AIResponse(r) ==
    LET final_response == heap[r][steps[r].implementation.llm_response]
    IN  [response |-> final_response.response,
         message_type |-> steps[r].categorization.classification.message_type,
         sources |-> final_response.sources,
         provider |-> final_response.provider,
         model |-> final_response.model,
         agent_execution |-> [steps |-> ExecutionSteps(r),
                              final_response |-> final_response]]

\* process_request assembles the execution trace and returns: HTTP 200
ReturnResponse(r) ==
    /\ pc[r] = "respond"
    /\ result' = [result EXCEPT ![r] = [status |-> 200, body |-> AIResponse(r)]]
    /\ pc' = [pc EXCEPT ![r] = "done"]
    /\ UNCHANGED <<providers, files, request, steps, frame, heap, search,
                   manager_log, phase_log>>

\* ------------------------------------------------------------------------
\* DataService.unified_search
\* ------------------------------------------------------------------------

DefaultSections == <<"projects", "jobs", "certificates">>

\* ' '.join(words)
RECURSIVE JoinWords(_)
JoinWords(words) ==
    IF words = <<>> THEN <<>>
    ELSE IF Len(words) = 1 THEN words[1]
    ELSE words[1] \o <<" ">> \o JoinWords(Tail(words))

\* searchable_text of _search_projects, _search_jobs and _search_certificates
\* (shortDescription is absent from the project records: it formats as '')
SearchableText(type, rec) ==
    CASE type = "projects" ->
            rec.name \o <<" ">> \o rec.description \o <<" ">> \o <<>> \o <<" ">>
                \o JoinWords(rec.skills) \o <<" ">> \o rec.category
      [] type = "jobs" ->
            rec.title \o <<" ">> \o rec.company \o <<" ">> \o rec.description \o <<" ">>
                \o JoinWords(rec.skills)
      [] type = "certificates" ->
            rec.name \o <<" ">> \o rec.provider \o <<" ">> \o rec.field \o <<" ">>
                \o JoinWords(rec.skills)

RecordMatches(query, type, rec) ==
    Contains(Lower(SearchableText(type, rec)), Lower(query))

\* _search_<type>: the matching records in file order, the loop breaking as
\* soon as limit of them are collected
RECURSIVE SearchRecords(_, _, _, _)
SearchRecords(query, type, records, limit) ==
    IF records = <<>> THEN <<>>
    ELSE IF RecordMatches(query, type, Head(records))
         THEN IF limit <= 1 THEN <<Head(records)>>
              ELSE <<Head(records)>> \o SearchRecords(query, type, Tail(records), limit - 1)
         ELSE SearchRecords(query, type, Tail(records), limit)

SearchSection(type, items) == [type |-> type, items |-> items, count |-> Len(items)]

\* the files unified_search reads for include_sections, in the order it reads them
SearchedSections(include_sections) ==
    SelectSeq(DefaultSections, LAMBDA s : s \in Range(include_sections))

UnifiedSearchRaises(include_sections) ==
    \E i \in DOMAIN SearchedSections(include_sections) :
        LoadRaises(SearchedSections(include_sections)[i])

UnifiedSearchError(include_sections) ==
    LET searched == SearchedSections(include_sections)
        failing == {i \in DOMAIN searched : LoadRaises(searched[i])}
    IN  LoadError(searched[CHOOSE i \in failing : \A j \in failing : i <= j])

\* unified_search(...).sections: one section per searched type that has results
UnifiedSearchSections(query, include_sections, limit) ==
    LET searched == SearchedSections(include_sections)
        found == [i \in DOMAIN searched |->
                    SearchSection(searched[i],
                        SearchRecords(query, searched[i], GetData(searched[i]), limit))]
    IN  SelectSeq(found, LAMBDA section : section.items # <<>>)

\* ------------------------------------------------------------------------
\* EnhancedAIService.semantic_search
\* ------------------------------------------------------------------------

Min(a, b) == IF a <= b THEN a ELSE b

Max(a, b) == IF a >= b THEN a ELSE b

\* seq[a:b] of Python for 0 <= a
Slice(seq, a, b) == SubSeq(seq, a + 1, Min(b, Len(seq)))

\* characters in code point order, for comparing lowered names
CodePoints == <<" ","0","1","2","3","4","5","6","7","8","9","A","B","C","D","E","F","G","H","I","J","K","L","M","N","O","P","Q","R","S","T","U","V","W","X","Y","Z","_","a","b","c","d","e","f","g","h","i","j","k","l","m","n","o","p","q","r","s","t","u","v","w","x","y","z">>

CodePoint(c) == CHOOSE i \in DOMAIN CodePoints : CodePoints[i] = c

\* a < b for Python str
StrLess(a, b) ==
    \E k \in 1..(Len(b)) :
        /\ \A j \in 1..(k - 1) : j <= Len(a) /\ a[j] = b[j]
        /\ \/ k = Len(a) + 1
           \/ k <= Len(a) /\ CodePoint(a[k]) < CodePoint(b[k])

\* sorted(seq, key=...): stable; less[i][j] says that the key of seq[i] is
\* smaller than the key of seq[j]
StableSort(seq, less) ==
    LET Before(i, j) == less[i][j] \/ (~less[j][i] /\ i < j)
        Rank(i) == Cardinality({j \in DOMAIN seq : Before(j, i)})
    IN  [k \in DOMAIN seq |-> seq[CHOOSE i \in DOMAIN seq : Rank(i) = k - 1]]

\* mutant: a repeated section keeps its first index
PriorityIndexFirst(priority_order, type) ==
    IF type \in Range(priority_order)
    THEN (CHOOSE i \in DOMAIN priority_order :
            /\ priority_order[i] = type
            /\ \A j \in DOMAIN priority_order : priority_order[j] = type => i <= j) - 1
    ELSE Len(priority_order)

\* priority_index.get(section.type, len(priority_order)): a dict built from
\* enumerate keeps the last index of a repeated section
PriorityIndex(priority_order, type) ==
    IF type \in Range(priority_order)
    THEN (CHOOSE i \in DOMAIN priority_order :
            /\ priority_order[i] = type
            /\ \A j \in DOMAIN priority_order : priority_order[j] = type => j <= i) - 1
    ELSE Len(priority_order)

PriorityOrder(include_sections) ==
    IF include_sections # <<>> THEN include_sections ELSE DefaultSections

OrderSections(sections, include_sections) ==
    LET Key(section) == PriorityIndex(PriorityOrder(include_sections), section.type)
    IN  StableSort(sections,
            [i \in DOMAIN sections |-> [j \in DOMAIN sections |->
                Key(sections[i]) < Key(sections[j])]])

\* _flatten_sections_to_items
RECURSIVE FlattenSectionsToItems(_)
FlattenSectionsToItems(sections) ==
    IF sections = <<>> THEN <<>>
    ELSE [i \in DOMAIN Head(sections).items |->
            [type |-> Head(sections).type, data |-> Head(sections).items[i]]]
         \o FlattenSectionsToItems(Tail(sections))

\* the key (not project.featured, project.name.lower()) compared
ProjectLess(a, b) ==
    \/ a.featured /\ ~b.featured
    \/ a.featured = b.featured /\ StrLess(Lower(a.name), Lower(b.name))

\* sorted(projects, key=lambda project: (not project.featured, project.name.lower()))
SortProjects(projects) ==
    StableSort(projects,
        [i \in DOMAIN projects |-> [j \in DOMAIN projects |->
            ProjectLess(projects[i], projects[j])]])

\* mutant: the records are taken in file order
FallbackRecordsFileOrder(type) ==
    CASE type = "projects" ->
            IF LoadRaises("projects_new") THEN <<>>
            ELSE IF GetData("projects_new") # <<>> THEN GetData("projects_new")
            ELSE IF LoadRaises("projects") THEN <<>>
            ELSE GetData("projects")
      [] type = "jobs" -> IF LoadRaises("jobs") THEN <<>> ELSE GetData("jobs")
      [] type = "certificates" ->
            IF LoadRaises("certificates") THEN <<>> ELSE GetData("certificates")

\* the records _build_fallback_sections picks for a section; a file that
\* cannot be loaded is logged and gives none
FallbackRecords(type) ==
    CASE type = "projects" ->
            IF LoadRaises("projects_new") THEN <<>>
            ELSE IF GetData("projects_new") # <<>>
                 THEN SortProjects(GetData("projects_new"))
            ELSE IF LoadRaises("projects") THEN <<>>
            ELSE SortProjects(GetData("projects"))
      [] type = "jobs" ->
            IF LoadRaises("jobs") THEN <<>>
            ELSE SelectSeq(GetData("jobs"), LAMBDA job : job.isCurrent)
                 \o SelectSeq(GetData("jobs"), LAMBDA job : ~job.isCurrent)
      [] type = "certificates" ->
            IF LoadRaises("certificates") THEN <<>> ELSE GetData("certificates")

\* mutant: an empty include_sections is not replaced by the default sections
BuildFallbackSectionsNoDefault(include_sections, per_section_limit) ==
    LET limit == Max(1, per_section_limit)
        wanted == SelectSeq(DefaultSections, LAMBDA s : s \in Range(include_sections))
        built == [i \in DOMAIN wanted |->
                    SearchSection(wanted[i], SubSeq(FallbackRecords(wanted[i]), 1,
                        Min(limit, Len(FallbackRecords(wanted[i])))))]
    IN  SelectSeq(built, LAMBDA section : section.items # <<>>)

\* _build_fallback_sections
BuildFallbackSections(include_sections, per_section_limit) ==
    LET limit == Max(1, per_section_limit)
        wanted == SelectSeq(DefaultSections,
                    LAMBDA s : s \in Range(PriorityOrder(include_sections)))
        built == [i \in DOMAIN wanted |->
                    SearchSection(wanted[i], SubSeq(FallbackRecords(wanted[i]), 1,
                        Min(limit, Len(FallbackRecords(wanted[i])))))]
    IN  SelectSeq(built, LAMBDA section : section.items # <<>>)

\* ordered_sections after the fallback step of semantic_search
OrderedSections(query, include_sections, limit) ==
    LET matched == OrderSections(UnifiedSearchSections(query, include_sections, limit),
                                 include_sections)
        fallback == BuildFallbackSections(include_sections, Min(3, Max(1, limit)))
    IN  IF Len(FlattenSectionsToItems(matched)) = 0 /\ fallback # <<>>
        THEN OrderSections(fallback, include_sections)
        ELSE matched

\* fallback_used
FallbackUsed(query, include_sections, limit) ==
    LET matched == UnifiedSearchSections(query, include_sections, limit)
    IN  /\ Len(FlattenSectionsToItems(matched)) = 0
        /\ Len(FlattenSectionsToItems(
                BuildFallbackSections(include_sections, Min(3, Max(1, limit))))) > 0

\* mutant: the requested offset is used as it is
SafeOffsetUnclamped(offset, total_count) == offset

\* safe_offset
SafeOffset(offset, total_count) == Min(offset, total_count)

\* end_index
EndIndex(offset, limit, total_count) ==
    Min(total_count, SafeOffset(offset, total_count) + limit)

\* PaginationMeta of semantic_search
Pagination(offset, limit, total_count) ==
    [total_count |-> total_count,
     limit |-> limit,
     offset |-> SafeOffset(offset, total_count),
     has_more |-> EndIndex(offset, limit, total_count) < total_count]

NavIntents ==
    {"search_projects", "search_experience", "search_certificates", "search_skills",
     "general_search"}

NavKeywords == {<<"s","h","o","w">>, <<"o","p","e","n">>, <<"g","o"," ","t","o">>, <<"g","o","t","o">>, <<"t","a","k","e"," ","m","e">>, <<"v","i","e","w">>, <<"l","i","s","t">>}

NavPrefixes == {<<"s","h","o","w"," ">>, <<"o","p","e","n"," ">>, <<"v","i","e","w"," ">>, <<"l","i","s","t"," ">>, <<"s","e","e"," ">>, <<"g","o"," ","t","o"," ">>, <<"g","o","t","o"," ">>}

SectionTerms ==
    {<<"p","r","o","j","e","c","t">>, <<"p","r","o","j","e","c","t","s">>, <<"e","x","p","e","r","i","e","n","c","e">>, <<"j","o","b">>, <<"j","o","b","s">>, <<"c","e","r","t","i","f","i","c","a","t","e">>,
     <<"c","e","r","t","i","f","i","c","a","t","e","s">>, <<"s","k","i","l","l">>, <<"s","k","i","l","l","s">>, <<"c","o","n","t","a","c","t">>, <<"a","b","o","u","t">>}

\* mutant: the rule for short phrases with a section noun is missing
IsNavigationQueryNoTerms(query, classification) ==
    LET lowered == Strip(Lower(query))
    IN  \/ classification.message_type = "search_request"
        \/ classification.intent \in NavIntents
        \/ /\ classification.message_type = "command"
           /\ \E keyword \in NavKeywords : Contains(lowered, keyword)
        \/ \E prefix \in NavPrefixes : StartsWith(lowered, prefix)

\* _is_navigation_query
IsNavigationQuery(query, classification) ==
    LET lowered == Strip(Lower(query))
        tokens == Split(lowered)
    IN  \/ classification.message_type = "search_request"
        \/ classification.intent \in NavIntents
        \/ /\ classification.message_type = "command"
           /\ \E keyword \in NavKeywords : Contains(lowered, keyword)
        \/ \E prefix \in NavPrefixes : StartsWith(lowered, prefix)
        \/ /\ 0 < Len(tokens) /\ Len(tokens) <= 3
           /\ \E i \in DOMAIN tokens : tokens[i] \in SectionTerms

\* ------------------------------------------------------------------------
\* Summaries and answers of the search orchestrator
\* ------------------------------------------------------------------------

\* sep.join(words)
RECURSIVE JoinWith(_, _)
JoinWith(sep, words) ==
    IF words = <<>> THEN <<>>
    ELSE IF Len(words) = 1 THEN words[1]
    ELSE words[1] \o sep \o JoinWith(sep, Tail(words))

UpperChar(c) ==
    IF \E i \in 1..26 : LowerLetters[i] = c
    THEN UpperLetters[CHOOSE i \in 1..26 : LowerLetters[i] = c]
    ELSE c

IsLetter(c) == \E i \in 1..26 : LowerLetters[i] = c \/ UpperLetters[i] = c

\* str.title()
Title(s) ==
    [i \in 1..Len(s) |->
        IF i = 1 \/ ~IsLetter(s[i - 1]) THEN UpperChar(s[i]) ELSE LowerChar(s[i])]

\* seq[:n]
FirstN(seq, n) == SubSeq(seq, 1, Min(n, Len(seq)))

\* list(dict.fromkeys(values)): the first occurrences, in order
RECURSIVE Dedupe(_)
Dedupe(values) ==
    IF values = <<>> THEN <<>>
    ELSE LET before == Dedupe(SubSeq(values, 1, Len(values) - 1))
             last == values[Len(values)]
         IN  IF last \in Range(before) THEN before ELSE Append(before, last)

OrElse(value, default) == IF value # <<>> THEN value ELSE default

\* the context line _extract_section_context writes for an item (the dash and
\* the middle dot of the source are written in ASCII)
ContextLine(type, item) ==
    CASE type = "projects" ->
            Strip(<<"P","r","o","j","e","c","t"," ","-"," ">> \o OrElse(item.name, <<"U","n","n","a","m","e","d"," ","p","r","o","j","e","c","t">>) \o <<":"," ">>
                  \o item.description \o <<"."," ","S","k","i","l","l","s",":"," ">>
                  \o JoinWith(<<","," ">>, FirstN(item.skills, 6)))
      [] type = "jobs" ->
            Strip(<<"E","x","p","e","r","i","e","n","c","e"," ","-"," ">> \o OrElse(item.title, <<"R","o","l","e">>) \o <<" ","a","t"," ">>
                  \o item.company \o <<":"," ">> \o item.description \o <<"."," ","S","k","i","l","l","s",":"," ">>
                  \o JoinWith(<<","," ">>, FirstN(item.skills, 6)))
      [] type = "certificates" ->
            Strip(<<"C","e","r","t","i","f","i","c","a","t","e"," ","-"," ">> \o OrElse(item.name, <<"C","e","r","t","i","f","i","c","a","t","e">>) \o <<" ","f","r","o","m"," ">>
                  \o item.provider \o <<" ","i","n"," ">> \o item.field \o <<".">>)

\* the name _extract_section_context highlights for an item
HighlightName(type, item) ==
    CASE type = "projects" -> OrElse(item.name, <<"U","n","n","a","m","e","d"," ","p","r","o","j","e","c","t">>)
      [] type = "jobs" ->
            IF item.company # <<>>
            THEN OrElse(item.title, <<"R","o","l","e">>) \o <<" ","*"," ">> \o item.company
            ELSE OrElse(item.title, <<"R","o","l","e">>)
      [] type = "certificates" -> OrElse(item.name, <<"C","e","r","t","i","f","i","c","a","t","e">>)

\* _extract_section_context(...)[0]
RECURSIVE ContextLines(_, _)
ContextLines(sections, per_section_limit) ==
    IF sections = <<>> THEN <<>>
    ELSE LET section == Head(sections)
             items == FirstN(section.items, per_section_limit)
         IN  [i \in DOMAIN items |-> ContextLine(section.type, items[i])]
             \o ContextLines(Tail(sections), per_section_limit)

\* _extract_section_context(...)[1]: the dict as its entries in insertion order
Highlights(sections, per_section_limit) ==
    LET with_items == SelectSeq(sections, LAMBDA section : section.items # <<>>)
    IN  [i \in DOMAIN with_items |->
            LET items == FirstN(with_items[i].items, per_section_limit)
            IN  [section |-> with_items[i].type,
                 names |-> Dedupe([k \in DOMAIN items |->
                                    HighlightName(with_items[i].type, items[k])])]]

\* filtered_highlights of _build_navigation_summary
FilteredHighlights(highlights) ==
    LET filled == SelectSeq(highlights, LAMBDA entry : entry.names # <<>>)
    IN  [i \in DOMAIN filled |->
            [section |-> filled[i].section, names |-> FirstN(filled[i].names, 5)]]

\* highlights.get(section, [])
HighlightsGet(highlights, section) ==
    IF \E i \in DOMAIN highlights : highlights[i].section = section
    THEN highlights[CHOOSE i \in DOMAIN highlights : highlights[i].section = section].names
    ELSE <<>>

\* _compose_navigation_fallback
ComposeNavigationFallback(query, highlights) ==
    LET project_names == HighlightsGet(highlights, "projects")
        job_names == HighlightsGet(highlights, "jobs")
        certificate_names == HighlightsGet(highlights, "certificates")
        summary_parts ==
            (IF project_names # <<>>
             THEN <<<<"I"," ","h","a","v","e"," ","w","o","r","k","e","d"," ","o","n"," ","p","r","o","j","e","c","t","s"," ","s","u","c","h"," ","a","s"," ">>
                    \o JoinWith(<<","," ">>, FirstN(project_names, 3)) \o <<" ","t","h","a","t"," ","s","h","o","w","c","a","s","e"," ">>
                    \o OrElse(query, <<"t","h","e","s","e"," ","c","a","p","a","b","i","l","i","t","i","e","s">>) \o <<".">>>>
             ELSE <<>>)
            \o (IF job_names # <<>>
                THEN <<<<"M","y"," ","e","x","p","e","r","i","e","n","c","e"," ","i","n","c","l","u","d","e","s"," ","r","o","l","e","s"," ","l","i","k","e"," ">>
                       \o JoinWith(<<","," ">>, FirstN(job_names, 2)) \o <<" ","w","h","e","r","e"," ","I"," ","a","p","p","l","i","e","d"," ">>
                       \o OrElse(query, <<"t","h","e","s","e"," ","s","k","i","l","l","s">>) \o <<" ","i","n"," ","p","r","a","c","t","i","c","e",".">>>>
                ELSE <<>>)
            \o (IF certificate_names # <<>>
                THEN <<<<"I"," ","h","a","v","e"," ","a","l","s","o"," ","e","a","r","n","e","d"," ","c","e","r","t","i","f","i","c","a","t","i","o","n","s"," ","i","n","c","l","u","d","i","n","g"," ">>
                       \o JoinWith(<<","," ">>, FirstN(certificate_names, 3))
                       \o <<" ","t","h","a","t"," ","r","e","i","n","f","o","r","c","e"," ","t","h","i","s"," ","e","x","p","e","r","t","i","s","e",".">>>>
                ELSE <<>>)
    IN  JoinWith(<<" ">>,
            IF summary_parts # <<>> THEN summary_parts
            ELSE IF query # <<>>
                 THEN <<<<"I"," ","c","o","u","l","d"," ","n","o","t"," ","f","i","n","d"," ","s","p","e","c","i","f","i","c"," ","p","o","r","t","f","o","l","i","o"," ","r","e","c","o","r","d","s"," ","f","o","r"," ","'">> \o query
                        \o <<"'",","," ","b","u","t"," ","f","e","e","l"," ","f","r","e","e"," ","t","o"," ","e","x","p","l","o","r","e"," ","t","h","e"," ","s","e","c","t","i","o","n","s"," ","b","e","l","o","w"," ","f","o","r"," ","m","o","r","e"," ","d","e","t","a","i","l","s",".">>>>
                 ELSE <<<<"H","e","r","e"," ","a","r","e"," ","t","h","e"," ","m","o","s","t"," ","r","e","l","e","v","a","n","t"," ","h","i","g","h","l","i","g","h","t","s"," ","f","r","o","m"," ","m","y"," ","p","o","r","t","f","o","l","i","o",".">>>>)

\* _compose_information_fallback (the bullet and the typographic apostrophe of
\* the source are written in ASCII)
ComposeInformationFallback(query, context_lines) ==
    IF context_lines # <<>>
    THEN LET lines == FirstN(context_lines, 5)
         IN  (IF query # <<>>
              THEN <<"H","e","r","e","'","s"," ","a"," ","c","u","r","a","t","e","d"," ","s","n","a","p","s","h","o","t"," ","f","r","o","m"," ","m","y"," ","p","o","r","t","f","o","l","i","o"," ","t","a","i","l","o","r","e","d"," ","t","o"," ">> \o <<"\"">>
                   \o query \o <<"\"">> \o <<":">>
              ELSE <<"H","e","r","e","'","s"," ","a"," ","c","u","r","a","t","e","d"," ","s","n","a","p","s","h","o","t"," ","f","r","o","m"," ","a","c","r","o","s","s"," ","m","y"," ","p","o","r","t","f","o","l","i","o",":">>)
             \o <<"\n","\n">>
             \o JoinWith(<<"\n">>, [i \in DOMAIN lines |-> <<"*"," ">> \o lines[i]])
             \o <<"\n","\n">>
             \o <<"B","r","o","w","s","e"," ","t","h","e"," ","s","e","c","t","i","o","n","s"," ","b","e","l","o","w"," ","t","o"," ","d","i","v","e"," ","i","n","t","o"," ","t","h","e"," ","f","u","l","l"," ","w","r","i","t","e","-","u","p","s"," ","a","n","d"," ","r","e","l","a","t","e","d"," ","w","o","r","k",".">>
    ELSE IF query # <<>>
    THEN <<"I"," ","c","o","u","l","d","n","'","t"," ","a","s","s","e","m","b","l","e"," ","a"," ","r","i","c","h","e","r"," ","A","I"," ","s","u","m","m","a","r","y"," ","f","o","r"," ">> \o <<"\"">> \o query \o <<"\"">>
         \o <<" ","j","u","s","t"," ","y","e","t","."," ","T","r","y"," ","e","x","p","l","o","r","i","n","g"," ","t","h","e"," ","s","e","c","t","i","o","n","s"," ","b","e","l","o","w"," ","o","r"," ","r","e","p","h","r","a","s","i","n","g"," ","y","o","u","r"," ","q","u","e","s","t","i","o","n"," ","f","o","r"," ","m","o","r","e"," ","c","o","n","t","e","x","t",".">>
    ELSE <<"I"," ","c","o","u","l","d","n","'","t"," ","a","s","s","e","m","b","l","e"," ","a"," ","r","i","c","h","e","r"," ","A","I"," ","s","u","m","m","a","r","y"," ","r","i","g","h","t"," ","n","o","w","."," ","F","e","e","l"," ","f","r","e","e"," ","t","o"," ","b","r","o","w","s","e"," ","t","h","e"," ","s","e","c","t","i","o","n","s"," ","b","e","l","o","w"," ","o","r"," ","a","s","k"," ","a","n","o","t","h","e","r"," ","q","u","e","s","t","i","o","n"," ","f","o","r"," ","m","o","r","e"," ","c","o","n","t","e","x","t",".">>

\* _truncate_text for texts that fit max_length
TruncateText(text) == Strip(text)

\* _build_global_context: every block skips its lines when its file fails to load
GlobalContext ==
    (IF LoadRaises("intro") THEN <<>>
     ELSE LET intro == GetData("intro")[1]
          IN  <<<<"P","r","o","f","i","l","e"," ","-"," ">> \o intro.name \o <<","," ">> \o intro.title \o <<":"," ">>
                \o TruncateText(intro.about)>>)
    \o (IF LoadRaises("jobs") THEN <<>>
        ELSE LET jobs == FirstN(FallbackRecords("jobs"), 3)
             IN  [i \in DOMAIN jobs |->
                    <<"E","x","p","e","r","i","e","n","c","e"," ","-"," ">> \o jobs[i].title \o <<" ","a","t"," ">> \o jobs[i].company
                    \o <<":"," ">> \o TruncateText(jobs[i].description)])
    \o (LET projects == FirstN(FallbackRecords("projects"), 3)
        IN  [i \in DOMAIN projects |->
                <<"P","r","o","j","e","c","t"," ","-"," ">> \o projects[i].name \o <<":"," ">>
                \o TruncateText(projects[i].description) \o <<"."," ","S","k","i","l","l","s",":"," ">>
                \o JoinWith(<<","," ">>, FirstN(projects[i].skills, 5))])
    \o (IF LoadRaises("certificates") THEN <<>>
        ELSE LET certificates == FirstN(GetData("certificates"), 3)
             IN  [i \in DOMAIN certificates |->
                    <<"C","e","r","t","i","f","i","c","a","t","e"," ","-"," ">> \o certificates[i].name \o <<" ","f","r","o","m"," ">>
                    \o certificates[i].provider \o <<" ","i","n"," ">> \o certificates[i].field \o <<".">>])

\* context_lines of _build_information_answer
InformationContextLines(sections, include_global_profile) ==
    LET own == ContextLines(sections, 4)
        merged == IF include_global_profile /\ GlobalContext # <<>>
                  THEN Dedupe(SelectSeq(GlobalContext \o own, LAMBDA line : line # <<>>))
                  ELSE own
    IN  IF merged = <<>> THEN GlobalContext ELSE merged

\* context_blob
ContextBlob(context_lines) ==
    Slice(JoinWith(<<"\n">>, SelectSeq(context_lines, LAMBDA line : line # <<>>)), 0, 4000)

\* ------------------------------------------------------------------------
\* POST /ai/search
\* ------------------------------------------------------------------------

\* largest limit of a search request the model sends (the schema allows 1..100)
MaxLimit == 5

\* largest offset of a search request the model sends (the schema allows any >= 0)
MaxOffset == 3

Q_project == <<"p","r","o","j","e","c","t">>

Q_python == <<"P","y","t","h","o","n">>

Q_nothing == <<"z","z","z">>

Q_show == <<"s","h","o","w"," ","z","z","z">>

\* search queries
Queries == {Q_project, Q_python, Q_nothing, Q_show}

\* include_sections of the search requests
SectionLists ==
    {DefaultSections, <<"projects">>, <<"certificates", "jobs">>, <<>>,
     <<"projects", "jobs", "projects">>}

SearchRequest(query, include_sections, limit, offset) ==
    [kind |-> "search", message |-> query, provider |-> NULL,
     include_sections |-> include_sections, limit |-> limit, offset |-> offset]

\* the data directories a search request is served from
SearchFileConfigs ==
    {AllFilesOk,
     [AllFilesOk EXCEPT !["projects_new"] = FileMissing],
     [AllFilesOk EXCEPT !["projects_new"] = FileOk(<<>>), !["jobs"] = FileMissing],
     [AllFilesOk EXCEPT !["projects"] = FileOk(<<>>), !["jobs"] = FileOk(<<>>),
                        !["certificates"] = FileOk(<<>>)],
     [n \in FileNames |-> IF n = "intro" THEN FileMissing ELSE FileOk(<<>>)]}

NoSummary == [present |-> FALSE, title |-> <<>>, body |-> <<>>, highlights |-> <<>>]

NoAnswer == [present |-> FALSE, text |-> <<>>]

\* POST /ai/search: search_content awaits ai_service.semantic_search(request)
SearchContent(r) ==
    /\ pc[r] = "idle"
    /\ \E query \in Queries, include_sections \in SectionLists,
          limit \in 1..MaxLimit, offset \in 0..MaxOffset :
        request' = [request EXCEPT ![r] =
                        SearchRequest(query, include_sections, limit, offset)]
    /\ pc' = [pc EXCEPT ![r] = "search"]
    /\ UNCHANGED <<providers, files, steps, frame, heap, search, result,
                   manager_log, phase_log>>

\* the locals of semantic_search when it has resolved the search type
SearchLocals(req) ==
    LET classification == ClassifyMessage(req.message)
        ordered_sections == OrderedSections(req.message, req.include_sections, req.limit)
        aggregated_items == FlattenSectionsToItems(ordered_sections)
        total_count == Len(aggregated_items)
    IN  [started |-> TRUE,
         classification |-> classification,
         ordered_sections |-> ordered_sections,
         total_count |-> total_count,
         fallback_used |-> FallbackUsed(req.message, req.include_sections, req.limit),
         paginated_items |-> Slice(aggregated_items,
                                   SafeOffset(req.offset, total_count),
                                   EndIndex(req.offset, req.limit, total_count)),
         pagination |-> Pagination(req.offset, req.limit, total_count),
         resolved_search_type |->
            IF IsNavigationQuery(req.message, classification)
            THEN "navigation" ELSE "information"]

\* summary_text, title and highlights of _build_navigation_summary; llm_text is
\* the stripped text of the LLM, empty when the LLM was not called or failed
NavigationSummary(query, sections, llm_text) ==
    LET filtered_highlights == FilteredHighlights(Highlights(sections, 3))
        composed == OrElse(llm_text, ComposeNavigationFallback(query, filtered_highlights))
    IN  [present |-> TRUE,
         title |-> IF query # <<>> THEN Title(query) \o <<" ","H","i","g","h","l","i","g","h","t","s">>
                   ELSE <<"P","o","r","t","f","o","l","i","o"," ","H","i","g","h","l","i","g","h","t","s">>,
         body |-> OrElse(composed,
                         <<"E","x","p","l","o","r","e"," ","t","h","e"," ","s","e","c","t","i","o","n","s"," ","b","e","l","o","w"," ","t","o"," ","l","e","a","r","n"," ","m","o","r","e"," ","a","b","o","u","t"," ","m","y"," ","w","o","r","k",".">>),
         highlights |-> filtered_highlights]

\* mutant: the stripped text of the LLM is returned even when it is empty
InformationAnswerNoFallback(query, sections, include_global_profile, llm_text) ==
    [present |-> TRUE, text |-> llm_text]

\* the return value of _build_information_answer
InformationAnswer(query, sections, include_global_profile, llm_text) ==
    [present |-> TRUE,
     text |-> OrElse(llm_text,
                ComposeInformationFallback(query,
                    InformationContextLines(sections, include_global_profile)))]

\* mutant: the answer field repeats the summary body
SearchResultBoth(req, locals, summary, answer) ==
    [items |-> locals.paginated_items,
     total_count |-> locals.total_count,
     query |-> req.message,
     search_type |-> locals.resolved_search_type,
     pagination |-> locals.pagination,
     summary |-> summary,
     sections |-> locals.ordered_sections,
     llm_response |-> IF summary.present THEN [present |-> TRUE, text |-> summary.body]
                      ELSE answer,
     intent |-> locals.classification.intent]

\* SearchResult(...) of semantic_search
SearchResult(req, locals, summary, answer) ==
    [items |-> locals.paginated_items,
     total_count |-> locals.total_count,
     query |-> req.message,
     search_type |-> locals.resolved_search_type,
     pagination |-> locals.pagination,
     summary |-> summary,
     sections |-> locals.ordered_sections,
     llm_response |-> answer,
     intent |-> locals.classification.intent]

\* the text of the LLM a summary or an answer is built from
LlmText(r) ==
    IF frame[r].outcome.kind = "return"
    THEN Strip(heap[r][frame[r].outcome.ref].response) ELSE <<>>

\* semantic_search up to its await: it searches, falls back, paginates, resolves
\* the search type and calls the LLM for the summary or the answer; a navigation
\* query without context is summarised without the LLM
SemanticSearch(r) ==
    /\ pc[r] = "search"
    /\ LET req == request[r]
       IN  IF UnifiedSearchRaises(req.include_sections)
           THEN /\ result' = [result EXCEPT ![r] =
                                Http500(UnifiedSearchError(req.include_sections))]
                /\ pc' = [pc EXCEPT ![r] = "done"]
                /\ UNCHANGED <<search, frame, manager_log>>
           ELSE LET locals == SearchLocals(req)
                    navigation == locals.resolved_search_type = "navigation"
                    f == InvokeManager(r,
                            IF navigation THEN "navigation_summary" ELSE "information_answer",
                            IF navigation THEN "search_summary"
                            ELSE "search_information_answer", NULL)
                IN  /\ search' = [search EXCEPT ![r] = locals]
                    /\ IF navigation
                          /\ ContextBlob(ContextLines(locals.ordered_sections, 3)) = <<>>
                       THEN /\ result' = [result EXCEPT ![r] =
                                    [status |-> 200,
                                     body |-> SearchResult(req, locals,
                                        NavigationSummary(req.message,
                                            locals.ordered_sections, <<>>), NoAnswer)]]
                            /\ pc' = [pc EXCEPT ![r] = "done"]
                            /\ UNCHANGED <<frame, manager_log>>
                       ELSE /\ frame' = [frame EXCEPT ![r] = f]
                            /\ manager_log' = [manager_log EXCEPT ![r] =
                                                  @ \o InvokeEvents(f, NULL)]
                            /\ pc' = [pc EXCEPT ![r] = PcAfterInvoke(f)]
                            /\ UNCHANGED result
    /\ UNCHANGED <<providers, files, request, steps, heap, phase_log>>

\* _build_navigation_summary after its await, then the return of semantic_search
SummaryResume(r) ==
    /\ pc[r] = "summary_resume"
    /\ result' = [result EXCEPT ![r] =
            [status |-> 200,
             body |-> SearchResult(request[r], search[r],
                        NavigationSummary(request[r].message, search[r].ordered_sections,
                                          LlmText(r)), NoAnswer)]]
    /\ pc' = [pc EXCEPT ![r] = "done"]
    /\ UNCHANGED <<providers, files, request, steps, frame, heap, search,
                   manager_log, phase_log>>

\* _build_information_answer after its await, then the return of semantic_search
AnswerResume(r) ==
    /\ pc[r] = "answer_resume"
    /\ result' = [result EXCEPT ![r] =
            [status |-> 200,
             body |-> SearchResult(request[r], search[r], NoSummary,
                        InformationAnswer(request[r].message, search[r].ordered_sections,
                                          search[r].fallback_used, LlmText(r)))]]
    /\ pc' = [pc EXCEPT ![r] = "done"]
    /\ UNCHANGED <<providers, files, request, steps, frame, heap, search,
                   manager_log, phase_log>>

\* ------------------------------------------------------------------------
\* POST /ai/classify
\* ------------------------------------------------------------------------

\* messages sent for classification
ClassifyMessages ==
    {M_question, M_search, M_hello,
     <<"p","r","o","j","e","c","t","?"," ","y","e","s">>, <<"m","y"," ","s","k","i","l","l","?">>, <<"i","s"," ","p","y","t","h","o","n"," ","a"," ","s","k","i","l","l","?"," ","m","a","y","b","e">>,
     <<"a","d","d"," ","p","r","o","j","e","c","t">>, <<"u","p","d","a","t","e"," ","t","h","e"," ","p","a","g","e">>, <<"d","e","l","e","t","e"," ","i","t","?">>, <<"R","e","s","t","a","r","t"," ","i","n"," ","2","0","2","4">>,
     <<"a","d","d"," ","a"," ","l","i","s","t">>, <<"f","i","n","d"," ","r","e","a","c","t"," ","a","n","d"," ","d","o","c","k","e","r"," ","w","o","r","k">>, <<" "," ","W","h","a","t","?","\n">>, <<"h","o","w">>, <<"s","h","o","w">>}

ClassifyRequest(message) ==
    [kind |-> "classify", message |-> message, provider |-> NULL,
     include_sections |-> <<>>, limit |-> 0, offset |-> 0]

\* mutant: the keywords pile up in a list shared by all classifications
ClassifyEndpointShared(r) ==
    /\ pc[r] = "idle"
    /\ \E message \in ClassifyMessages :
        /\ request' = [request EXCEPT ![r] = ClassifyRequest(message)]
        /\ result' = [result EXCEPT ![r] =
              [status |-> 200,
               body |-> [success |-> TRUE,
                         data |-> [ClassifyMessage(message) EXCEPT !.keywords =
                            @ \cup UNION {result[q].body.data.keywords :
                                    q \in {x \in Requests : request[x].kind = "classify"}}]]]]
    /\ pc' = [pc EXCEPT ![r] = "done"]
    /\ UNCHANGED <<providers, files, steps, frame, heap, search, manager_log, phase_log>>

\* classify_message of routes/ai.py: the handler has no await, it classifies
\* the message and answers in one step
ClassifyEndpoint(r) ==
    /\ pc[r] = "idle"
    /\ \E message \in ClassifyMessages :
        /\ request' = [request EXCEPT ![r] = ClassifyRequest(message)]
        /\ result' = [result EXCEPT ![r] =
              [status |-> 200,
               body |-> [success |-> TRUE, data |-> ClassifyMessage(message)]]]
    /\ pc' = [pc EXCEPT ![r] = "done"]
    /\ UNCHANGED <<providers, files, steps, frame, heap, search, manager_log, phase_log>>


\* ------------------------------------------------------------------------
\* POST /ai/search with the defaults of the request schema
\* ------------------------------------------------------------------------

\* SearchRequest.limit when the request does not give it
DefaultLimit == 10

\* queries that reach every rule of _is_navigation_query
NavigationQueries ==
    {Q_show, Q_nothing, M_question, M_hello,
     <<"s","h","o","w">>, <<"j","o","b","s">>, <<"c","o","n","t","a","c","t"," ","m","e">>, <<"a","d","d"," ","a"," ","l","i","s","t">>, <<"s","e","t"," ","t","h","e"," ","o","v","e","r","v","i","e","w">>,
     <<"a","d","d"," ","p","r","o","j","e","c","t">>, <<"u","p","d","a","t","e"," ","t","h","e"," ","p","a","g","e">>, <<"m","y"," ","s","k","i","l","l","?">>, <<"h","o","w">>,
     <<"f","i","n","d"," ","r","e","a","c","t"," ","a","n","d"," ","d","o","c","k","e","r"," ","w","o","r","k">>}

\* search_content receiving a request that gives only the query
SearchContentDefaults(r) ==
    /\ pc[r] = "idle"
    /\ \E query \in NavigationQueries :
        request' = [request EXCEPT ![r] =
                        SearchRequest(query, DefaultSections, DefaultLimit, 0)]
    /\ pc' = [pc EXCEPT ![r] = "search"]
    /\ UNCHANGED <<providers, files, steps, frame, heap, search, result,
                   manager_log, phase_log>>

\* ------------------------------------------------------------------------
\* GET /ai/status
\* ------------------------------------------------------------------------

\* the values of the LLMProvider enumeration
LLMProviderValues == {"groq", "openai", "anthropic", "local"}

\* LLMProviderManager.get_available_providers (a list that is only tested for
\* emptiness and membership)
GetAvailableProviders(provs) == {p \in DOMAIN provs : IsAvailable(provs[p])}

\* mutant: a registered provider counts whether or not it is available
GetAiStatusRegistered(provs) ==
    [status |-> IF DOMAIN provs # {} THEN "active" ELSE "limited",
     components |-> [llm_agent |-> "active", message_classifier |-> "active",
                     provider_manager |-> "active", data_service |-> "active",
                     prompt_manager |-> "active"],
     providers |-> [p \in LLMProviderValues |-> p \in DOMAIN provs]]

\* EnhancedAIService.get_ai_status
GetAiStatus(provs) ==
    LET available_providers == GetAvailableProviders(provs)
    IN  [status |-> IF available_providers # {} THEN "active" ELSE "limited",
         components |-> [llm_agent |-> "active", message_classifier |-> "active",
                         provider_manager |-> "active", data_service |-> "active",
                         prompt_manager |-> "active"],
         providers |-> [p \in LLMProviderValues |-> p \in available_providers]]

StatusRequest ==
    [kind |-> "status", message |-> <<>>, provider |-> NULL,
     include_sections |-> <<>>, limit |-> 0, offset |-> 0]

\* the route get_ai_status
StatusEndpoint(r) ==
    /\ pc[r] = "idle"
    /\ request' = [request EXCEPT ![r] = StatusRequest]
    /\ result' = [result EXCEPT ![r] = [status |-> 200, body |-> GetAiStatus(providers)]]
    /\ pc' = [pc EXCEPT ![r] = "done"]
    /\ UNCHANGED <<providers, files, steps, frame, heap, search, manager_log, phase_log>>

\* ------------------------------------------------------------------------
\* The data router (routes/data.py), mounted under /api
\* ------------------------------------------------------------------------

\* HTTPException(status_code=404, detail=...) raised by a route handler
Http404(handler) == [status |-> 404, handler |-> handler]

\* a route: its literal path segments, whether one path parameter follows
\* them, and what its handler reads
Route(prefix, param, handler, kind, reads) ==
    [prefix |-> prefix, param |-> param, handler |-> handler, kind |-> kind,
     reads |-> reads]

\* the routes in the order the decorators register them (the routes /layout,
\* /page and /search, whose paths overlap with no other route, are left out;
\* /experience and /work call get_jobs)
DataRoutes ==
    <<Route(<<<<"i","n","t","r","o">>>>, FALSE, "get_intro", "list", <<"intro">>),
      Route(<<<<"j","o","b","s">>>>, FALSE, "get_jobs", "list", <<"jobs">>),
      Route(<<<<"p","r","o","j","e","c","t","s">>>>, FALSE, "get_projects", "list", <<"projects">>),
      Route(<<<<"p","r","o","j","e","c","t","s">>, <<"n","e","w">>>>, FALSE, "get_new_projects", "list", <<"projects_new">>),
      Route(<<<<"c","e","r","t","i","f","i","c","a","t","e","s">>>>, FALSE, "get_certificates", "list", <<"certificates">>),
      Route(<<<<"p","r","o","j","e","c","t","s">>>>, TRUE, "get_project_by_id", "by_id", <<"projects">>),
      Route(<<<<"j","o","b","s">>>>, TRUE, "get_job_by_id", "by_id", <<"jobs">>),
      Route(<<<<"c","e","r","t","i","f","i","c","a","t","e","s">>>>, TRUE, "get_certificate_by_id", "by_id", <<"certificates">>),
      Route(<<<<"p","r","o","j","e","c","t","s">>, <<"p","a","g","i","n","a","t","e","d">>>>, FALSE, "get_paginated_projects", "paginated",
            <<"projects">>),
      Route(<<<<"j","o","b","s">>, <<"p","a","g","i","n","a","t","e","d">>>>, FALSE, "get_paginated_jobs", "paginated", <<"jobs">>),
      Route(<<<<"c","e","r","t","i","f","i","c","a","t","e","s">>, <<"p","a","g","i","n","a","t","e","d">>>>, FALSE, "get_paginated_certificates",
            "paginated", <<"certificates">>),
      Route(<<<<"s","k","i","l","l","s">>>>, FALSE, "get_skills_aggregation", "aggregate",
            <<"projects", "jobs", "certificates">>),
      Route(<<<<"t","i","m","e","l","i","n","e">>>>, FALSE, "get_timeline", "aggregate", <<"jobs", "certificates">>),
      Route(<<<<"s","t","a","t","s">>>>, FALSE, "get_stats_summary", "aggregate",
            <<"projects", "jobs", "certificates">>),
      Route(<<<<"e","x","p","e","r","i","e","n","c","e">>>>, FALSE, "get_experience", "list", <<"jobs">>),
      Route(<<<<"w","o","r","k">>>>, FALSE, "get_work", "list", <<"jobs">>)>>

\* the path regex of a route matches the whole path; a path parameter matches
\* one non-empty segment
PathMatches(route, path) ==
    IF route.param
    THEN /\ Len(path) = Len(route.prefix) + 1
         /\ SubSeq(path, 1, Len(route.prefix)) = route.prefix
         /\ path[Len(path)] # <<>>
    ELSE path = route.prefix

\* the router hands a request to the first registered route that matches; 0
\* when none does
Dispatch(path) ==
    LET matching == {i \in DOMAIN DataRoutes : PathMatches(DataRoutes[i], path)}
    IN  IF matching = {} THEN 0
        ELSE CHOOSE i \in matching : \A j \in matching : i <= j

\* s.replace(a, b) for single characters
Replace(s, a, b) == [i \in 1..Len(s) |-> IF s[i] = a THEN b ELSE s[i]]

\* the test get_<type>_by_id applies to a record
IdMatches(name, rec, id) ==
    IF name = "certificates"
    THEN Replace(Lower(rec.name), " ", "_") = Lower(id)
    ELSE rec.id = id

\* what the handler of route answers: the files are read in the order of
\* reads and the first that cannot be loaded ends the request (the bodies of
\* the aggregate handlers are not modelled)
HandleData(route, path, limit, offset) ==
    LET failing == {i \in DOMAIN route.reads : LoadRaises(route.reads[i])}
        first == route.reads[CHOOSE i \in failing : \A j \in failing : i <= j]
        records == GetData(route.reads[1])
    IN  IF failing # {}
        THEN IF route.kind = "list" /\ LoadError(first).type = "FileNotFoundError"
             THEN Http404(route.handler)
             ELSE [status |-> 500, handler |-> route.handler]
        ELSE CASE route.kind = "list" ->
                    [status |-> 200, handler |-> route.handler,
                     body |-> [success |-> TRUE, data |-> records]]
               [] route.kind = "by_id" ->
                    LET id == path[Len(path)]
                        found == {i \in DOMAIN records :
                                    IdMatches(route.reads[1], records[i], id)}
                    IN  IF found = {} THEN Http404(route.handler)
                        ELSE [status |-> 200, handler |-> route.handler,
                              body |-> [success |-> TRUE,
                                        data |-> records[CHOOSE i \in found :
                                                    \A j \in found : i <= j]]]
               [] route.kind = "paginated" ->
                    [status |-> 200, handler |-> route.handler,
                     body |-> [data |-> Slice(records, offset, offset + limit),
                               pagination |-> [total_count |-> Len(records),
                                               limit |-> limit, offset |-> offset,
                                               has_more |-> offset + limit < Len(records)],
                               filters |-> [skills |-> NULL, featured |-> NULL,
                                            category |-> NULL, status |-> NULL]]]
               [] route.kind = "aggregate" ->
                    [status |-> 200, handler |-> route.handler]

\* the paths of the GET requests
DataPaths ==
    {DataRoutes[i].prefix : i \in DOMAIN DataRoutes}
    \cup {<<<<"p","r","o","j","e","c","t","s">>, <<"c","h","a","t","-","b","o","t">>>>, <<<<"j","o","b","s">>, <<"a","c","m","e">>>>,
          <<<<"c","e","r","t","i","f","i","c","a","t","e","s">>, <<"M","L","_","B","a","s","i","c","s">>>>, <<<<"p","r","o","j","e","c","t","s">>, <<"n","o","t","h","i","n","g">>>>}

DataRequest(path, limit, offset) ==
    [kind |-> "data", message |-> <<>>, provider |-> NULL,
     include_sections |-> <<>>, limit |-> limit, offset |-> offset, path |-> path]

\* the data directories the data router is served from
DataFileConfigs ==
    {AllFilesOk}
    \cup {[AllFilesOk EXCEPT ![n] = FileMissing] : n \in FileNames}
    \cup {[AllFilesOk EXCEPT ![n] = FileCorrupt] : n \in FileNames}

\* GET /api/<path>: the router dispatches and the handler answers
DataEndpoint(r) ==
    /\ pc[r] = "idle"
    /\ \E path \in DataPaths, limit \in 1..MaxLimit, offset \in 0..MaxOffset :
        /\ request' = [request EXCEPT ![r] = DataRequest(path, limit, offset)]
        /\ result' = [result EXCEPT ![r] =
                IF Dispatch(path) = 0 THEN Http404("none")
                ELSE HandleData(DataRoutes[Dispatch(path)], path, limit, offset)]
    /\ pc' = [pc EXCEPT ![r] = "done"]
    /\ UNCHANGED <<providers, files, steps, frame, heap, search, manager_log, phase_log>>

\* ------------------------------------------------------------------------
\* GET /health (routes/main.py)
\* ------------------------------------------------------------------------

\* the fields of HealthResponse that have no default
HealthRequired == {"status", "version"}

\* HealthResponse(**fields): the model validates that every required field is
\* given and raises ValidationError otherwise (timestamp, filled by its default
\* factory, is left out)
HealthResponse(fields) ==
    IF HealthRequired \subseteq DOMAIN fields
    THEN [raised |-> FALSE,
          value |-> [status |-> fields.status, version |-> fields.version, uptime |-> NULL]]
    ELSE [raised |-> TRUE, value |-> [status |-> NULL, version |-> NULL, uptime |-> NULL]]

HealthRequest ==
    [kind |-> "health", message |-> <<>>, provider |-> NULL,
     include_sections |-> <<>>, limit |-> 0, offset |-> 0]

\* health_check: it has no exception handler, so an exception raised while the
\* response is built is answered with HTTP 500 by the server
HealthCheck(r) ==
    /\ pc[r] = "idle"
    /\ request' = [request EXCEPT ![r] = HealthRequest]
    /\ LET response == HealthResponse([status |-> "healthy"])
       IN  result' = [result EXCEPT ![r] =
                IF response.raised
                THEN [status |-> 500, body |-> response.value]
                ELSE [status |-> 200, body |-> response.value]]
    /\ pc' = [pc EXCEPT ![r] = "done"]
    /\ UNCHANGED <<providers, files, steps, frame, heap, search, manager_log, phase_log>>
\* ------------------------------------------------------------------------
\* Properties of the Provider Manager and of the agent pipeline
\* ------------------------------------------------------------------------

\* the events of the n-th generate_response call made for request r
CallLog(r, n) == SelectSeq(manager_log[r], LAMBDA e : e.call = n)

EventsOf(L, ev) == {i \in DOMAIN L : L[i].ev = ev}

Available(p) == p \in DOMAIN providers /\ IsAvailable(providers[p])

\* providers [A unavailable, B available, C available]
ScenarioABC ==
    /\ "groq" \in DOMAIN providers /\ ~Available("groq")
    /\ Available("openai") /\ Available("anthropic")

\* C1: generate_response calls its candidates one at a time in candidate-list
\* order: a candidate is called only after every earlier candidate was called
\* and failed, the response returned is that of the first candidate that
\* succeeds and nothing is called after it; with A unavailable, B and C
\* available and no preferred provider the response is B's, and C's if B raised.
C1_SequentialFallback ==
    \A r \in Requests : \A n \in 1..frame[r].call :
        LET L == CallLog(r, n)
            to_try == L[1].providers_to_try
            calls == EventsOf(L, "call")
            Kth(i) == Cardinality({j \in calls : j <= i})
        IN  /\ \A i \in calls :
                /\ Kth(i) <= Len(to_try)
                /\ L[i].provider = to_try[Kth(i)]
                /\ \A k \in 1..(Kth(i) - 1) :
                      \E j \in 1..(i - 1) : L[j].ev = "fail" /\ L[j].provider = to_try[k]
                /\ \A j \in 1..(i - 1) : L[j].ev # "ok"
                /\ i > 2 => L[i - 1].ev = "fail"
            /\ \A i \in EventsOf(L, "return") :
                /\ i = Len(L)
                /\ L[i - 1].ev = "ok"
                /\ L[i - 1].provider = to_try[Cardinality(calls)]
                /\ Cardinality(EventsOf(L, "fail")) = Cardinality(calls) - 1
                /\ heap[r][L[i].ref].provider = L[i - 1].provider
                /\ heap[r][L[i].ref].response = L[i - 1].text
                /\ (ScenarioABC /\ L[1].preferred = NULL) =>
                      heap[r][L[i].ref].provider =
                          IF EventsOf(L, "fail") = {} THEN "openai" ELSE "anthropic"

\* a call that returned C's response after B raised, A being unavailable
C1_Witness ==
    \E r \in Requests :
        /\ ScenarioABC
        /\ frame[r].call = 1
        /\ request[r].provider = NULL
        /\ frame[r].outcome.kind = "return"
        /\ heap[r][frame[r].outcome.ref].provider = "anthropic"

\* C2: the candidate list is the preferred provider first if it is registered
\* and available, then the remaining registered available providers in the
\* priority order; no provider twice, none unavailable or unregistered, and a
\* preferred provider that is unregistered or unavailable is left out.
C2_CandidateList ==
    \A r \in Requests : \A i \in EventsOf(manager_log[r], "invoke") :
        LET c == manager_log[r][i].providers_to_try
            preferred == manager_log[r][i].preferred
            preferred_ok == preferred # NULL /\ Available(preferred)
            rest == IF preferred_ok /\ c # <<>> THEN Tail(c) ELSE c
        IN  /\ \A a, b \in DOMAIN c : a # b => c[a] # c[b]
            /\ \A a \in DOMAIN c : Available(c[a])
            /\ preferred_ok => (c # <<>> /\ c[1] = preferred)
            /\ rest = SelectSeq(provider_priority,
                        LAMBDA p : Available(p) /\ ~(preferred_ok /\ p = preferred))
            /\ (preferred # NULL /\ ~preferred_ok) => preferred \notin Range(c)

\* an available preferred provider of lower priority is put before the others
C2_Witness ==
    \E r \in Requests : \E i \in EventsOf(manager_log[r], "invoke") :
        /\ manager_log[r][i].preferred = "anthropic"
        /\ manager_log[r][i].providers_to_try = <<"anthropic", "groq">>
        /\ "openai" \in DOMAIN providers

\* C3: generate_response fails in exactly two cases: with no candidate it
\* raises the no-providers error without calling an adapter; when every
\* candidate was called and failed it raises the all-providers-failed error that
\* carries the last candidate's error; in every other case it returns a response.
C3_FailureCases ==
    \A r \in Requests : \A n \in 1..frame[r].call :
        LET L == CallLog(r, n)
            to_try == L[1].providers_to_try
            fails == EventsOf(L, "fail")
            last == L[Len(L)]
        IN  /\ \A i \in EventsOf(L, "raise") :
                /\ i = Len(L)
                /\ \/ /\ L[i].error = NoProvidersError
                      /\ to_try = <<>>
                      /\ EventsOf(L, "call") = {}
                   \/ /\ L[i].error.type = "AllProvidersFailed"
                      /\ to_try # <<>>
                      /\ \A k \in 1..Len(to_try) :
                            \E j \in fails : L[j].provider = to_try[k]
                      /\ L[i - 1].ev = "fail"
                      /\ L[i - 1].provider = to_try[Len(to_try)]
                      /\ L[i].error.last_error = L[i - 1].error
            /\ to_try = <<>> => (Len(L) = 2 /\ last.ev = "raise")
            /\ (to_try # <<>> /\ Cardinality(fails) = Len(to_try)) => last.ev = "raise"
            /\ (to_try # <<>> /\ Cardinality(fails) < Len(to_try)) =>
                    \/ last.ev = "call"
                    \/ last.ev = "return" /\ last.ref \in DOMAIN heap[r]

\* every candidate failed, the first by a timeout and the last by an API error
C3_Witness ==
    \E r \in Requests :
        LET L == CallLog(r, 1)
        IN  /\ frame[r].call = 1
            /\ frame[r].outcome.kind = "raise"
            /\ frame[r].outcome.error = AllFailedError("api_error")
            /\ Len(frame[r].providers_to_try) >= 2
            /\ \E j \in EventsOf(L, "fail") :
                  L[j].error = "timeout" /\ L[j].provider = frame[r].providers_to_try[1]

\* the responses the Provider Manager returned for request r
ManagerReturns(r) == EventsOf(manager_log[r], "return")

ManagerInvocations(r) == EventsOf(manager_log[r], "invoke")

\* C4 as stated: exactly one generated response flows out of the Provider
\* Manager in every pipeline invocation that returns a response.
C4_ExactlyOneResponse ==
    \A r \in Requests :
        (request[r].kind = "chat" /\ result[r].status = 200) =>
            Cardinality(ManagerReturns(r)) = 1

\* C4 amended: a pipeline run invokes the Provider Manager once, or twice when
\* the first response fails validation; every invocation yields at most one
\* response, made by one adapter call; the final response of a run that returns
\* is the unmerged response of the last invocation.
C4_OneResponsePerInvocation ==
    \A r \in Requests :
        request[r].kind = "chat" =>
            /\ Cardinality(ManagerInvocations(r)) <= 2
            /\ \A n \in 1..frame[r].call :
                  Cardinality(EventsOf(CallLog(r, n), "return")) <= 1
            /\ result[r].status = 200 =>
                  LET log == manager_log[r]
                      last == log[Len(log)]
                      ok == log[Len(log) - 1]
                  IN  /\ Cardinality(ManagerReturns(r)) = Cardinality(ManagerInvocations(r))
                      /\ Cardinality(ManagerReturns(r)) =
                            IF steps[r].validation.is_valid THEN 1 ELSE 2
                      /\ last.ev = "return" /\ ok.ev = "ok"
                      /\ result[r].body.response = ok.text
                      /\ result[r].body.provider = ok.provider
                      /\ result[r].body.agent_execution.final_response.response = ok.text
            /\ Cardinality(ManagerReturns(r)) <= Cardinality(ManagerInvocations(r))

\* a run that returned the regenerated response, different from the first one
C4_Witness ==
    \E r \in Requests :
        /\ request[r].kind = "chat"
        /\ result[r].status = 200
        /\ Cardinality(ManagerReturns(r)) = 2
        /\ heap[r][1].response = T_ten
        /\ result[r].body.response = T_eleven

\* the validity of a generated response as the specification words it
TrimmedLongerThanTen(text) ==
    \E lo, hi \in DOMAIN text :
        /\ text[lo] \notin Whitespace /\ text[hi] \notin Whitespace
        /\ hi - lo + 1 > 10

\* C5: a generated response is valid iff its trimmed text is longer than 10
\* characters and it is not all whitespace; the Provider Manager is re-invoked
\* with the fallback prompt only when the response is invalid, at most once per
\* run and without recursion, so it is invoked at most twice per run.
C5_ValidationRetry ==
    \A r \in Requests :
        request[r].kind = "chat" =>
            LET invokes == ManagerInvocations(r)
                retries == {i \in invokes : manager_log[r][i].caller = "validation"}
                generation == steps[r].generation
            IN  /\ Cardinality(invokes) <= 2
                /\ Cardinality(retries) <= 1
                /\ \A i \in retries :
                      /\ generation.done
                      /\ ~TrimmedLongerThanTen(generation.response)
                      /\ manager_log[r][i].prompt = "fallback_prompt"
                      /\ manager_log[r][i].preferred = NULL
                /\ steps[r].validation.done =>
                      /\ steps[r].validation.is_valid =
                            TrimmedLongerThanTen(generation.response)
                      /\ steps[r].validation.is_valid <=> retries = {}
                /\ (pc[r] \in {"implementation", "respond"} /\ retries = {}) =>
                      TrimmedLongerThanTen(generation.response)

\* a response of ten characters between whitespace was regenerated
C5_Witness ==
    \E r \in Requests :
        /\ steps[r].validation.done
        /\ ~steps[r].validation.is_valid
        /\ steps[r].generation.response = T_padded_ten
        /\ Cardinality(ManagerInvocations(r)) = 2

PhaseOrder == <<"categorization", "response_generation", "validation", "implementation">>

\* the log of a run whose first n phases completed
CompletedPhases(n) ==
    [i \in 1..(2 * n) |->
        IF i % 2 = 1 THEN PhaseStart(PhaseOrder[(i + 1) \div 2])
        ELSE PhaseEnd(PhaseOrder[i \div 2])]

\* C6: process_request runs categorization, response generation, validation
\* and implementation in this order: a phase starts only after the previous one
\* has completed and takes its output as input, and the execution trace of a
\* completed run lists exactly these four steps in this order.
C6_PhaseOrder ==
    \A r \in Requests :
        request[r].kind = "chat" =>
            LET log == phase_log[r]
                s == steps[r]
            IN  /\ \E n \in 0..4 :
                      \/ log = CompletedPhases(n)
                      \/ n < 4 /\ log = Append(CompletedPhases(n), PhaseStart(PhaseOrder[n + 1]))
                      \/ n < 4 /\ log = CompletedPhases(n) \o
                            <<PhaseStart(PhaseOrder[n + 1]), PhaseRaise(PhaseOrder[n + 1])>>
                /\ s.generation.done => s.categorization.done
                /\ s.validation.done => s.generation.done
                /\ s.implementation.done => s.validation.done
                /\ s.categorization.done =>
                      s.categorization.classification = ClassifyMessage(request[r].message)
                /\ (s.validation.done /\ s.validation.is_valid) =>
                      /\ s.validation.validated_response = s.generation.response
                      /\ s.validation.llm_response = s.generation.llm_response
                /\ s.implementation.done =>
                      /\ s.implementation.llm_response = s.validation.llm_response
                      /\ heap[r][s.implementation.llm_response].response =
                            s.validation.validated_response
                /\ result[r].status = 200 =>
                      LET trace == result[r].body.agent_execution.steps
                      IN  /\ [i \in DOMAIN trace |-> trace[i].phase] = PhaseOrder
                          /\ log = CompletedPhases(4)
                          /\ trace[2].input.classification = trace[1].output
                          /\ trace[3].input.response = trace[2].output.response
                          /\ trace[4].input.validated_response =
                                trace[3].output.validated_response
                          /\ result[r].body.response = trace[3].output.validated_response

\* a completed run whose validation phase replaced the generated response
C6_Witness ==
    \E r \in Requests :
        /\ result[r].status = 200
        /\ phase_log[r] = CompletedPhases(4)
        /\ steps[r].validation.llm_response # steps[r].generation.llm_response

\* whether the m-th phase of request r has produced its output
StepDone(r, m) ==
    CASE m = 1 -> steps[r].categorization.done
      [] m = 2 -> steps[r].generation.done
      [] m = 3 -> steps[r].validation.done
      [] m = 4 -> steps[r].implementation.done

\* C7: if a phase of the pipeline raises, no later phase runs and no response,
\* partial or otherwise, is returned: the /ai/chat handler answers HTTP 500.
C7_AbortOnRaise ==
    \A r \in Requests :
        request[r].kind = "chat" =>
            LET log == phase_log[r]
                raises == {i \in DOMAIN log : log[i].ev = "raise"}
                manager_raised == EventsOf(manager_log[r], "raise") # {}
            IN  /\ \A i \in raises :
                      /\ i = Len(log)
                      /\ pc[r] = "done"
                      /\ result[r].status = 500
                      /\ DOMAIN result[r] = {"status", "detail"}
                      /\ \A k \in 1..4 :
                            log[i].phase = PhaseOrder[k] =>
                                \A m \in k..4 : ~StepDone(r, m)
                /\ result[r].status = 500 => raises # {}
                /\ (manager_raised /\ pc[r] = "done") =>
                      /\ result[r].status = 500
                      /\ result[r].detail = manager_log[r][Len(manager_log[r])].error
                /\ manager_raised =>
                      pc[r] \in {"generation_resume", "validation_resume", "done"}
                /\ result[r].status = 200 => (raises = {} /\ ~manager_raised)

\* the regeneration of the validation phase failed after a response was generated
C7_Witness ==
    \E r \in Requests :
        /\ result[r].status = 500
        /\ result[r].detail.type = "AllProvidersFailed"
        /\ steps[r].generation.done
        /\ phase_log[r][Len(phase_log[r])] = PhaseRaise("validation")


\* the providers generate_response ever took as candidates or called for r
CandidatesOf(r) ==
    UNION {Range(manager_log[r][i].providers_to_try) :
                i \in EventsOf(manager_log[r], "invoke")}
    \cup {manager_log[r][i].provider : i \in EventsOf(manager_log[r], "call")}

\* C17: an adapter is available iff its API key and model name are non-empty
\* and its client handle was created at construction; the adapters never
\* change once the service is constructed, and an adapter whose construction
\* left it without a client is never a candidate of generate_response.
C17_AvailabilityFixed ==
    /\ [](\A p \in DOMAIN providers :
            Available(p) <=> /\ providers[p].config.api_key # ""
                             /\ providers[p].config.model # ""
                             /\ providers[p].client # NULL)
    /\ [][providers' = providers]_vars
    /\ [](\A r \in Requests : \A p \in CandidatesOf(r) :
            p \in DOMAIN providers /\ providers[p].client # NULL)

\* a chat answered by OpenAI while the registered Groq adapter has no client
C17_Witness ==
    \E r \in Requests :
        /\ pc[r] = "done" /\ result[r].status = 200
        /\ "groq" \in DOMAIN providers /\ providers["groq"].client = NULL
        /\ "openai" \in CandidatesOf(r)
        /\ "groq" \notin CandidatesOf(r)
\* ------------------------------------------------------------------------
\* Properties of the message classifier
\* ------------------------------------------------------------------------

\* request r is a classification that was answered
Classified(r) == pc[r] = "done" /\ request[r].kind = "classify"

\* the text the patterns are matched against
Lowered(r) == Strip(Lower(request[r].message))

\* the classification returned for request r
ClassificationOf(r) == result[r].body.data

HasDomainNoun(m) == \E noun \in DomainNouns : ContainsWord(m, noun)

\* the original statement of C13: a question mark anywhere and a domain noun
\* make a question
C13_QuestionMarkWins ==
    \A r \in Requests :
        (Classified(r) /\ Contains(Lowered(r), <<"?">>) /\ HasDomainNoun(Lowered(r)))
        => ClassificationOf(r).message_type = "question"

\* C13: the type is question if a question pattern matches, else
\* search_request if a search pattern matches, else command if a command
\* pattern matches, else conversation; so a message that matches a question
\* pattern, as one ending with a question mark does, and holds a domain noun
\* is a question, not a search_request.
C13_FirstGroupWins ==
    \A r \in Requests : Classified(r) =>
        LET m == Lowered(r)
            type == ClassificationOf(r).message_type
        IN  /\ type = "question" <=> MatchesQuestion(m)
            /\ type = "search_request" <=> ~MatchesQuestion(m) /\ MatchesSearch(m)
            /\ type = "command" <=>
                  ~MatchesQuestion(m) /\ ~MatchesSearch(m) /\ MatchesCommand(m)
            /\ type = "conversation" <=>
                  ~MatchesQuestion(m) /\ ~MatchesSearch(m) /\ ~MatchesCommand(m)
            /\ (EndsWith(m, <<"?">>) /\ HasDomainNoun(m)) => type = "question"

\* "my skill?" classified as a question
C13_Witness ==
    \E r \in Requests :
        /\ Classified(r)
        /\ request[r].message = <<"m","y"," ","s","k","i","l","l","?">>
        /\ ClassificationOf(r).message_type = "question"

\* m starts with a verb of the command vocabulary and holds neither a question
\* mark nor an interrogative word
ImperativeNoQuestion(m) ==
    /\ \E verb \in CommandStarters : StartsWith(m, verb)
    /\ ~Contains(m, <<"?">>)
    /\ \A w \in QuestionStarters : ~ContainsWord(m, w)

\* the original statement of C14
C14_ImperativeIsCommand ==
    \A r \in Requests :
        (Classified(r) /\ ImperativeNoQuestion(Lowered(r)))
        => ClassificationOf(r).message_type = "command"

\* C14: a message that starts with a verb of the command vocabulary, holds no
\* question mark and no interrogative word and matches no search pattern (no
\* search verb at its start, no domain noun as a word) is a command; with a
\* search pattern matching it is a search_request.
C14_CommandUnlessSearch ==
    \A r \in Requests :
        (Classified(r) /\ ImperativeNoQuestion(Lowered(r))) =>
            LET m == Lowered(r)
                searching ==
                    \/ \E w \in SearchStarters \cup SearchAboutStarters : StartsWith(m, w)
                    \/ HasDomainNoun(m)
            IN  ClassificationOf(r).message_type =
                    IF searching THEN "search_request" ELSE "command"

\* "update the page" classified as a command
C14_Witness ==
    \E r \in Requests :
        /\ Classified(r)
        /\ request[r].message = <<"u","p","d","a","t","e"," ","t","h","e"," ","p","a","g","e">>
        /\ ClassificationOf(r).message_type = "command"

\* C15: the confidence of a message ending in '?' is at least 0.8, and every
\* confidence is at most 1.0 (and at least the base 0.5), also when both
\* question-word rules add to it.
C15_ConfidenceBounds ==
    \A r \in Requests : Classified(r) =>
        LET confidence == ClassificationOf(r).confidence
            m == Lowered(r)
        IN  /\ FloatLeq(confidence, Float(10, FALSE))
            /\ FloatLeq(Float(5, FALSE), confidence)
            /\ EndsWith(m, <<"?">>) => FloatLeq(Float(8, FALSE), confidence)
            /\ request[r].message = M_question => confidence = Float(10, FALSE)

\* a question whose increments add up to 1.5 before the clamp
C15_Witness ==
    \E r \in Requests :
        /\ Classified(r)
        /\ request[r].message = M_question
        /\ ClassificationOf(r).confidence = Float(10, FALSE)

FourDigitYears(message) ==
    LET IsYear(i) ==
            /\ i + 3 <= Len(message)
            /\ SubSeq(message, i, i + 1) \in {<<"1","9">>, <<"2","0">>}
            /\ message[i + 2] \in Digits /\ message[i + 3] \in Digits
            /\ (i = 1 \/ message[i - 1] \notin WordChars)
            /\ (i + 3 = Len(message) \/ message[i + 4] \notin WordChars)
        starts == SelectSeq([i \in 1..Len(message) |-> i], IsYear)
    IN  [k \in DOMAIN starts |-> SubSeq(message, starts[k], starts[k] + 3)]

\* C27: the entities of a classification hold a key only when the message has
\* something for it, and the years entry lists the four-digit years from 1900
\* to 2099 that occur in the message. (An absent key is an empty list here.)
C27_YearsListed ==
    \A r \in Requests : Classified(r) =>
        LET entities == ClassificationOf(r).entities
            message == request[r].message
        IN  /\ \A i \in DOMAIN entities.technologies :
                  Contains(Lower(message), entities.technologies[i])
            /\ entities.years = FourDigitYears(message)
\* ------------------------------------------------------------------------
\* Properties of the data router
\* ------------------------------------------------------------------------

\* request r is a request to the data router that was answered
DataDone(r) == pc[r] = "done" /\ request[r].kind = "data"

\* the route that answered request r
RouteOf(r) ==
    CHOOSE i \in DOMAIN DataRoutes : DataRoutes[i].handler = result[r].handler

\* the first file the handler of request r reads that cannot be loaded
FirstFailing(r) ==
    LET reads == DataRoutes[RouteOf(r)].reads
        failing == {i \in DOMAIN reads : LoadRaises(reads[i])}
    IN  IF failing = {} THEN "none"
        ELSE reads[CHOOSE i \in failing : \A j \in failing : i <= j]

\* C21: a data endpoint whose backing file is missing answers 404 and one
\* whose backing file is malformed answers 500, for the list, by-id, paginated
\* and aggregate endpoints alike.
C21_MissingIs404 ==
    \A r \in Requests :
        (DataDone(r) /\ result[r].handler # "none" /\ FirstFailing(r) # "none") =>
            result[r].status =
                IF files[FirstFailing(r)].state = "missing" THEN 404 ELSE 500

PaginatedPaths ==
    {<<<<"p","r","o","j","e","c","t","s">>, <<"p","a","g","i","n","a","t","e","d">>>>, <<<<"j","o","b","s">>, <<"p","a","g","i","n","a","t","e","d">>>>,
     <<<<"c","e","r","t","i","f","i","c","a","t","e","s">>, <<"p","a","g","i","n","a","t","e","d">>>>}

\* C22: a GET on /api/<category>/paginated is handled by the paginated handler
\* and, when the file loads, answers {data, pagination, filters} with at most
\* limit records.
C22_PaginatedHandler ==
    \A r \in Requests :
        (DataDone(r) /\ request[r].path \in PaginatedPaths) =>
            /\ result[r].handler \in
                  {"get_paginated_projects", "get_paginated_jobs",
                   "get_paginated_certificates"}
            /\ FirstFailing(r) = "none" =>
                  /\ result[r].status = 200
                  /\ DOMAIN result[r].body = {"data", "pagination", "filters"}
                  /\ Len(result[r].body.data) <= request[r].limit

\* C23: GET /health answers 200 with the status 'healthy'; building the
\* response never fails for lack of a required field.
C23_Healthy ==
    \A r \in Requests :
        (pc[r] = "done" /\ request[r].kind = "health") =>
            result[r].status = 200 /\ result[r].body.status = "healthy"

\* ------------------------------------------------------------------------
\* Properties of the search orchestrator
\* ------------------------------------------------------------------------

\* request r is a search that semantic_search has answered
SearchDone(r) ==
    pc[r] = "done" /\ request[r].kind = "search" /\ result[r].status = 200

HasRecords(name) == files[name].state = "ok" /\ files[name].records # <<>>

\* some category holds a record that matches the query
SomeRecordMatches(query, types) ==
    \E type \in types \cap Range(DefaultSections) :
        /\ files[type].state = "ok"
        /\ \E i \in DOMAIN files[type].records :
              RecordMatches(query, type, files[type].records[i])

\* the original statement of C8: a search answers with at least one item as
\* soon as some category holds a record, whatever limit and offset are
C8_NeverEmptyItems ==
    \A r \in Requests :
        (/\ SearchDone(r)
         /\ \/ SomeRecordMatches(request[r].message, Range(DefaultSections))
            \/ \E name \in {"projects", "projects_new", "jobs", "certificates"} :
                  HasRecords(name))
        => result[r].body.items # <<>>

\* a section of types has a record its fallback loader reads: the projects come
\* from projects_new.json and from projects.json only when that list is empty
FallbackLoadable(types) ==
    \/ /\ "projects" \in types
       /\ files["projects_new"].state = "ok"
       /\ HasRecords("projects_new") \/ HasRecords("projects")
    \/ "jobs" \in types /\ HasRecords("jobs")
    \/ "certificates" \in types /\ HasRecords("certificates")

\* C8: an answered search has total_count >= 1, and a non-empty item list
\* exactly when its offset is below total_count, if a requested section holds a
\* record matching the query or a section the fallback covers (the requested
\* ones, all three when include_sections is empty) holds a record its fallback
\* loader can read.
C8_NonEmptyWithinRange ==
    \A r \in Requests :
        (/\ SearchDone(r)
         /\ \/ SomeRecordMatches(request[r].message, Range(request[r].include_sections))
            \/ FallbackLoadable(IF request[r].include_sections = <<>>
                                THEN Range(DefaultSections)
                                ELSE Range(request[r].include_sections)))
        => /\ result[r].body.total_count >= 1
           /\ result[r].body.items # <<>>
                <=> request[r].offset < result[r].body.total_count

\* a search without a matching record answered from the fallback sections
C8_Witness ==
    \E r \in Requests :
        /\ SearchDone(r)
        /\ search[r].fallback_used
        /\ request[r].message = Q_nothing
        /\ request[r].include_sections = <<>>
        /\ result[r].body.items # <<>>

\* C9: the offset used and reported is min(offset, total_count), has_more holds
\* iff that offset plus limit is below total_count, and the items are the
\* min(limit, total_count - offset) items from that offset on; 3 matching
\* projects with limit 5 and offset 0 give total_count 3, 3 items, no more.
C9_Pagination ==
    \A r \in Requests : SearchDone(r) =>
        LET req == request[r]
            body == result[r].body
            page == body.pagination
            all_items == FlattenSectionsToItems(body.sections)
        IN  /\ body.total_count = Len(all_items)
            /\ page.total_count = body.total_count
            /\ page.limit = req.limit
            /\ 0 <= page.offset /\ page.offset <= body.total_count
            /\ page.offset = IF req.offset <= body.total_count THEN req.offset
                             ELSE body.total_count
            /\ page.has_more <=> page.offset + req.limit < body.total_count
            /\ Len(body.items) =
                 IF req.limit <= body.total_count - page.offset THEN req.limit
                 ELSE body.total_count - page.offset
            /\ \A i \in DOMAIN body.items : body.items[i] = all_items[page.offset + i]
            /\ (/\ files = AllFilesOk
                /\ req.message = Q_project
                /\ req.include_sections = <<"projects">>
                /\ req.limit = 5 /\ req.offset = 0)
               => /\ body.total_count = 3
                  /\ Len(body.items) = 3
                  /\ ~page.has_more

\* the search for "project" in the three projects with limit 5 and offset 0
C9_Witness ==
    \E r \in Requests :
        /\ SearchDone(r)
        /\ files = AllFilesOk
        /\ request[r].message = Q_project
        /\ request[r].include_sections = <<"projects">>
        /\ request[r].limit = 5 /\ request[r].offset = 0
        /\ Len(result[r].body.items) = 3

\* C10: a SearchResult has the summary or the answer and never both: a
\* navigation result has the summary and no llm_response, an information
\* result the llm_response and no summary; the branch is that of
\* _is_navigation_query and the call makes at most one LLM request, for it.
C10_SummaryXorAnswer ==
    \A r \in Requests :
        /\ SearchDone(r) =>
            LET body == result[r].body
                navigation == IsNavigationQuery(request[r].message,
                                                ClassifyMessage(request[r].message))
            IN  /\ body.summary.present # body.llm_response.present
                /\ body.search_type \in {"navigation", "information"}
                /\ body.search_type = "navigation" <=> body.summary.present
                /\ body.search_type = "information" <=> body.llm_response.present
                /\ body.search_type = "navigation" <=> navigation
                /\ body.search_type = search[r].resolved_search_type
        /\ request[r].kind = "search" =>
            /\ Cardinality(EventsOf(manager_log[r], "invoke")) <= 1
            /\ \A i \in EventsOf(manager_log[r], "invoke") :
                  manager_log[r][i].caller =
                     IF search[r].resolved_search_type = "navigation"
                     THEN "navigation_summary" ELSE "information_answer"

\* an information search answered by the LLM
C10_Witness ==
    \E r \in Requests :
        /\ SearchDone(r)
        /\ result[r].body.search_type = "information"
        /\ result[r].body.llm_response.present
        /\ frame[r].outcome.kind = "return"
        /\ result[r].body.llm_response.text = T_eleven

\* the LLM was asked for search r and gave no usable text: generate_response
\* raised, or the text it returned is empty once stripped
LlmGaveNothing(r) ==
    /\ manager_log[r] # <<>>
    /\ \/ frame[r].outcome.kind = "raise"
       \/ /\ frame[r].outcome.kind = "return"
          /\ Strip(heap[r][frame[r].outcome.ref].response) = <<>>

\* the summary body is a sentence over the highlight lists
TemplatedFromHighlights(summary) ==
    /\ summary.highlights # <<>>
    /\ \A i \in DOMAIN summary.highlights :
          Contains(summary.body, summary.highlights[i].names[1])
    /\ \/ StartsWith(summary.body, <<"I"," ","h","a","v","e"," ","w","o","r","k","e","d"," ","o","n"," ","p","r","o","j","e","c","t","s"," ","s","u","c","h"," ","a","s"," ">>)
       \/ StartsWith(summary.body, <<"M","y"," ","e","x","p","e","r","i","e","n","c","e"," ","i","n","c","l","u","d","e","s"," ","r","o","l","e","s"," ","l","i","k","e"," ">>)
       \/ StartsWith(summary.body, <<"I"," ","h","a","v","e"," ","a","l","s","o"," ","e","a","r","n","e","d"," ","c","e","r","t","i","f","i","c","a","t","i","o","n","s"," ","i","n","c","l","u","d","i","n","g"," ">>)

\* the original statement of C11: with the LLM failing, an information search
\* always answers with the bullet-point digest of the context
C11_AlwaysDigest ==
    \A r \in Requests :
        (SearchDone(r) /\ LlmGaveNothing(r)
            /\ result[r].body.search_type = "information")
        => Contains(result[r].body.llm_response.text, <<"\n","\n","*"," ">>)

\* C11: a search whose LLM call raised or returned empty text is still
\* answered with HTTP 200: a navigation search with a summary whose body is the
\* templated sentence over its highlight lists, an information search with the
\* bullet-point digest of its context lines (matched or global), or with the
\* fixed sentence naming the query when there is no context line at all; the
\* body and the answer are never empty, and no search ends in an error once
\* the LLM was asked.
C11_LlmFailureDegrades ==
    \A r \in Requests :
        /\ (request[r].kind = "search" /\ result[r].status = 500) => manager_log[r] = <<>>
        /\ SearchDone(r) =>
              LET body == result[r].body
              IN  /\ body.summary.present => body.summary.body # <<>>
                  /\ body.llm_response.present => body.llm_response.text # <<>>
        /\ (SearchDone(r) /\ LlmGaveNothing(r)) =>
              LET body == result[r].body
                  lines == InformationContextLines(body.sections, search[r].fallback_used)
              IN  IF body.search_type = "navigation"
                  THEN TemplatedFromHighlights(body.summary)
                  ELSE IF lines # <<>>
                  THEN /\ Contains(body.llm_response.text, <<"\n","\n","*"," ">>)
                       /\ \A i \in 1..Len(lines) :
                             i <= 5 => Contains(body.llm_response.text, <<"*"," ">> \o lines[i])
                  ELSE /\ StartsWith(body.llm_response.text,
                                     <<"I"," ","c","o","u","l","d","n","'","t"," ","a","s","s","e","m","b","l","e"," ","a"," ","r","i","c","h","e","r"," ","A","I"," ","s","u","m","m","a","r","y">>)
                       /\ Contains(body.llm_response.text, request[r].message)

\* an information search answered with the digest after every provider failed
C11_Witness ==
    \E r \in Requests :
        /\ SearchDone(r)
        /\ result[r].body.search_type = "information"
        /\ frame[r].outcome.kind = "raise"
        /\ frame[r].outcome.error.type = "AllProvidersFailed"
        /\ Contains(result[r].body.llm_response.text, <<"\n","\n","*"," ">>)


\* the query of request r starts with a navigation verb and a space
StartsWithNavigationVerb(r) ==
    \E prefix \in NavPrefixes : StartsWith(Strip(Lower(request[r].message)), prefix)

\* the query of request r is a phrase of one to three tokens, one of them a
\* section noun
ShortSectionPhrase(r) ==
    LET tokens == Split(Strip(Lower(request[r].message)))
    IN  /\ Len(tokens) \in 1..3
        /\ \E i \in DOMAIN tokens : tokens[i] \in SectionTerms

\* the four conditions of the specification
ListedNavigation(r) ==
    \/ search[r].classification.message_type = "search_request"
    \/ search[r].classification.intent \in NavIntents
    \/ StartsWithNavigationVerb(r)
    \/ ShortSectionPhrase(r)

\* a command that holds a navigation keyword anywhere in its text
CommandWithNavigationKeyword(r) ==
    /\ search[r].classification.message_type = "command"
    /\ \E keyword \in NavKeywords : Contains(Strip(Lower(request[r].message)), keyword)

\* the original statement of C12: the four conditions are the only ways to
\* navigation
C12_OnlyListedConditions ==
    \A r \in Requests : SearchDone(r) =>
        (result[r].body.search_type = "navigation" <=> ListedNavigation(r))

\* C12: a search is answered as navigation iff the classifier's type is
\* search_request, or its intent is a search intent, or the type is command
\* and the query holds a navigation keyword, or the query starts with a
\* navigation verb and a space, or it is a phrase of one to three tokens with
\* a section noun; every other search is answered as information.
C12_NavigationIff ==
    \A r \in Requests : SearchDone(r) =>
        /\ result[r].body.search_type \in {"navigation", "information"}
        /\ result[r].body.search_type = "navigation" <=>
              (ListedNavigation(r) \/ CommandWithNavigationKeyword(r))

\* "jobs" answered as navigation by the short phrase rule alone, the classifier
\* calling it a conversation
C12_Witness ==
    \E r \in Requests :
        /\ SearchDone(r)
        /\ request[r].message = <<"j","o","b","s">>
        /\ search[r].classification.message_type = "conversation"
        /\ result[r].body.search_type = "navigation"

\* the search of request r matched a record of a requested section
Matched(r) == SomeRecordMatches(request[r].message, Range(request[r].include_sections))

\* the flags of items never go from FALSE back to TRUE, and a FALSE among them
\* means that every record of source flagged TRUE is among them
FlaggedFirst(flags, source_flags) ==
    /\ \A j, k \in DOMAIN flags : (j < k /\ flags[k]) => flags[j]
    /\ (\E j \in DOMAIN flags : ~flags[j]) =>
            Cardinality({j \in DOMAIN flags : flags[j]})
                = Cardinality({j \in DOMAIN source_flags : source_flags[j]})

\* the original statement of C24: the fallback covers no section the caller
\* did not list
C24_RequestedSectionsOnly ==
    \A r \in Requests : (SearchDone(r) /\ ~Matched(r)) =>
        \A i \in DOMAIN result[r].body.sections :
            result[r].body.sections[i].type \in Range(request[r].include_sections)

\* C24: when no record matches, the sections answered are fallback sections of
\* the requested sections (of all three when include_sections is empty), each
\* with 1 to min(3, limit) items, featured projects before the others and
\* current jobs before past ones; when a record matches, every item answered is
\* a matching record, the fallback is not used and the global profile is not
\* merged into the information answer.
C24_FallbackTopPicks ==
    \A r \in Requests : SearchDone(r) =>
        LET req == request[r]
            body == result[r].body
            covered == IF req.include_sections = <<>> THEN Range(DefaultSections)
                       ELSE Range(req.include_sections)
            projects == IF GetData("projects_new") # <<>> THEN GetData("projects_new")
                        ELSE GetData("projects")
        IN  /\ search[r].fallback_used => ~Matched(r)
            /\ Matched(r) =>
                \A i \in DOMAIN body.sections : \A k \in DOMAIN body.sections[i].items :
                    RecordMatches(req.message, body.sections[i].type,
                                  body.sections[i].items[k])
            /\ (/\ Matched(r) /\ body.llm_response.present /\ LlmGaveNothing(r))
                => ~Contains(body.llm_response.text, <<"P","r","o","f","i","l","e"," ","-"," ">>)
            /\ ~Matched(r) =>
                \A i \in DOMAIN body.sections :
                    LET section == body.sections[i]
                        items == section.items
                    IN  /\ section.type \in covered
                        /\ 1 <= Len(items) /\ Len(items) <= Min(3, req.limit)
                        /\ search[r].fallback_used
                        /\ section.type = "projects" =>
                              FlaggedFirst([k \in DOMAIN items |-> items[k].featured],
                                           [k \in DOMAIN projects |-> projects[k].featured])
                        /\ section.type = "jobs" =>
                              FlaggedFirst([k \in DOMAIN items |-> items[k].isCurrent],
                                           [k \in DOMAIN GetData("jobs") |->
                                                GetData("jobs")[k].isCurrent])
                        /\ section.type = "certificates" =>
                              items = SubSeq(GetData("certificates"), 1, Len(items))

\* a search without a match answered with the two featured projects before the
\* project that is not featured
C24_Witness ==
    \E r \in Requests :
        /\ SearchDone(r) /\ search[r].fallback_used
        /\ \E i \in DOMAIN result[r].body.sections :
              LET section == result[r].body.sections[i]
              IN  /\ section.type = "projects" /\ Len(section.items) = 3
                  /\ section.items[1].featured /\ section.items[2].featured
                  /\ ~section.items[3].featured

\* the position in listing of the first (last) occurrence of type
FirstListed(listing, type) ==
    CHOOSE i \in DOMAIN listing :
        listing[i] = type /\ \A j \in DOMAIN listing : listing[j] = type => i <= j

LastListed(listing, type) ==
    CHOOSE i \in DOMAIN listing :
        listing[i] = type /\ \A j \in DOMAIN listing : listing[j] = type => j <= i

\* the first limit records of a file that match the query, in file order
FirstMatches(query, type, limit) ==
    LET matching == SelectSeq(files[type].records,
                              LAMBDA rec : RecordMatches(query, type, rec))
    IN  SubSeq(matching, 1, Min(limit, Len(matching)))

\* the original statement of C25 for a search with a match: the sections
\* follow the order in which include_sections first names them
C25_SectionsAsListed ==
    \A r \in Requests : (SearchDone(r) /\ Matched(r)) =>
        LET sections == result[r].body.sections
        IN  \A i, j \in DOMAIN sections : i < j =>
                FirstListed(request[r].include_sections, sections[i].type)
                    < FirstListed(request[r].include_sections, sections[j].type)

\* C25: when a record matches, the answer has one section for each requested
\* category with a match, ordered by the last position at which
\* include_sections names the category; a section holds the first limit
\* matching records of its file in file order; total_count is the number of
\* these records over all sections, whatever the offset, and the items are a
\* run of the sections' records taken section by section.
C25_SectionsByLastListing ==
    \A r \in Requests : (SearchDone(r) /\ Matched(r)) =>
        LET req == request[r]
            body == result[r].body
            sections == body.sections
            requested == Range(req.include_sections) \cap Range(DefaultSections)
            with_match == {type \in requested :
                                FirstMatches(req.message, type, req.limit) # <<>>}
            flattened == FlattenSectionsToItems(sections)
        IN  /\ {sections[i].type : i \in DOMAIN sections} = with_match
            /\ Len(sections) = Cardinality(with_match)
            /\ \A i, j \in DOMAIN sections : i < j =>
                    LastListed(req.include_sections, sections[i].type)
                        < LastListed(req.include_sections, sections[j].type)
            /\ \A i \in DOMAIN sections :
                    /\ sections[i].items =
                            FirstMatches(req.message, sections[i].type, req.limit)
                    /\ Len(sections[i].items) <= req.limit
                    /\ \A k \in DOMAIN sections[i].items :
                            \E n \in DOMAIN flattened :
                                flattened[n] = [type |-> sections[i].type,
                                                data |-> sections[i].items[k]]
            /\ \A n, m \in DOMAIN flattened :
                    (n < m /\ flattened[n].type # flattened[m].type) =>
                        LastListed(req.include_sections, flattened[n].type)
                            < LastListed(req.include_sections, flattened[m].type)
            /\ body.total_count = Len(flattened)
            /\ \E first \in 0..Len(flattened) :
                    body.items = SubSeq(flattened, first + 1, first + Len(body.items))

\* projects listed first and again last: the jobs section comes first
C25_Witness ==
    \E r \in Requests :
        /\ SearchDone(r) /\ Matched(r)
        /\ request[r].include_sections = <<"projects", "jobs", "projects">>
        /\ request[r].offset > 0
        /\ [i \in DOMAIN result[r].body.sections |-> result[r].body.sections[i].type]
              = <<"jobs", "projects">>
        /\ result[r].body.total_count = 3
\* ------------------------------------------------------------------------
\* Properties of the status endpoint
\* ------------------------------------------------------------------------

\* request r is a status request that was answered
StatusDone(r) == pc[r] = "done" /\ request[r].kind = "status"

\* no provider has an API key: _initialize_providers registered none
NoProviderConfigured == DOMAIN providers = {}

C20_OfflineInTests ==
    \A r \in Requests : (StatusDone(r) /\ NoProviderConfigured) =>
        /\ result[r].status = 200
        /\ result[r].body.status = "offline"
        /\ "components" \in DOMAIN result[r].body

\* ------------------------------------------------------------------------
\* Properties of concurrently served requests
\* ------------------------------------------------------------------------

\* everything the service holds for request r alone
LocalState(r) ==
    <<pc[r], request[r], steps[r], frame[r], heap[r], search[r], result[r],
      manager_log[r], phase_log[r]>>

\* the texts the providers returned to calls made for request r
OwnTexts(r) ==
    {manager_log[r][i].text : i \in EventsOf(manager_log[r], "ok")}

ChatDone(r) == pc[r] = "done" /\ request[r].kind = "chat" /\ result[r].status = 200

\* the response of a chat is a text a provider returned for that request, with
\* the type of its own message and the sources of its own response
OwnChatResponse(r) ==
    LET body == result[r].body
    IN  /\ body.response \in OwnTexts(r)
        /\ body.message_type = DetermineMessageType(Strip(Lower(request[r].message)))
        /\ body.sources.items # <<>> => MentionsSources(body.response)

\* the summary or answer of a search is the stripped text a provider returned
\* for that request, or a text made without the LLM when there is none
OwnSearchResponse(r) ==
    LET body == result[r].body
        text == IF body.summary.present THEN body.summary.body
                ELSE body.llm_response.text
        usable == {Strip(t) : t \in OwnTexts(r)} \ {<<>>}
    IN  /\ body.query = request[r].message
        /\ body.intent =
              DetermineIntent(Strip(Lower(request[r].message)),
                              DetermineMessageType(Strip(Lower(request[r].message))))
        /\ IF usable # {} THEN text \in usable
           ELSE text \notin {Strip(t) : t \in ResponseTexts}

\* C18: with requests served concurrently in any interleaving the provider
\* registry is never modified, a step changes what the service holds for one
\* request only, and what a request is answered with comes from the provider
\* calls made for that request and from its own message.
C18_Isolation ==
    /\ [][providers' = providers]_vars
    /\ [][\E q \in Requests :
            \A r \in Requests \ {q} : LocalState(r)' = LocalState(r)]_vars
    /\ [](\A r \in Requests :
            /\ ChatDone(r) => OwnChatResponse(r)
            /\ SearchDone(r) => OwnSearchResponse(r))

\* a chat and a search both answered, with different texts from the provider
C18_Witness ==
    \E r, q \in Requests :
        /\ ChatDone(r) /\ SearchDone(q)
        /\ result[r].body.response = T_project
        /\ OwnTexts(q) = {T_eleven}
        /\ result[q].body.summary.body = T_eleven
\* ------------------------------------------------------------------------
\* Claims about the implementation and validation phases and termination
\* ------------------------------------------------------------------------

\* the source-count entries for the files as they are at the moment
ThreeSourceCounts ==
    <<[type |-> "projects", count |-> Len(GetData("projects"))],
      [type |-> "experience", count |-> Len(GetData("jobs"))],
      [type |-> "certificates", count |-> Len(GetData("certificates"))]>>

\* C26: when the implementation phase completes, the sources of the final
\* response are the three source counts (projects, experience, certificates)
\* if and only if the validated text contains "search" or "project" in any
\* letter case, and are empty otherwise; the phase always writes the sources,
\* which no earlier phase has set.
C26_SourcesIffMentioned ==
    \A r \in Requests :
        request[r].kind = "chat" =>
            /\ ~steps[r].implementation.done =>
                  \A i \in DOMAIN heap[r] : ~heap[r][i].sources.set
            /\ steps[r].implementation.done =>
                  LET text == Lower(steps[r].validation.validated_response)
                      final == heap[r][steps[r].implementation.llm_response]
                      mentioned == Contains(text, <<"s","e","a","r","c","h">>) \/ Contains(text, <<"p","r","o","j","e","c","t">>)
                  IN  /\ final.sources.set
                      /\ mentioned <=> final.sources.items = ThreeSourceCounts
                      /\ ~mentioned <=> final.sources.items = <<>>
                      /\ result[r].status = 200 =>
                            result[r].body.sources = final.sources

\* a response that names "Projects" with a capital got the three source counts
C26_Witness ==
    \E r \in Requests :
        /\ steps[r].implementation.done
        /\ steps[r].validation.validated_response = T_project
        /\ Len(heap[r][steps[r].implementation.llm_response].sources.items) = 3
        /\ result[r].status = 200

\* whether the validation phase of request r regenerated the response
Regenerated(r) ==
    /\ steps[r].validation.done
    /\ steps[r].validation.llm_response # steps[r].generation.llm_response

\* C28: the validity test is applied once per run, to the response of the
\* generation phase only. When that response is invalid and the regeneration
\* returns, the regenerated response is handed to the implementation phase and
\* returned whatever its text, without a further test or a further call, and
\* the validation step records is_valid = FALSE.
C28_ValidatedOnce ==
    \A r \in Requests :
        request[r].kind = "chat" =>
            LET generation == steps[r].generation
                validation == steps[r].validation
            IN  /\ validation.done =>
                      /\ validation.is_valid = TrimmedLongerThanTen(generation.response)
                      /\ Regenerated(r) <=> ~validation.is_valid
                /\ Regenerated(r) =>
                      /\ Cardinality(ManagerInvocations(r)) = 2
                      /\ validation.validated_response =
                            heap[r][validation.llm_response].response
                      /\ validation.validated_response \in ResponseTexts
                      /\ pc[r] \in {"implementation", "respond", "done"}
                      /\ steps[r].implementation.done =>
                            steps[r].implementation.llm_response = validation.llm_response
                      /\ result[r].status = 200 =>
                            result[r].body.response = validation.validated_response
                      /\ (result[r].status # 0 /\ result[r].status # 200) =>
                            /\ MentionsSources(validation.validated_response)
                            /\ ~steps[r].implementation.done

\* a run returned a regenerated response that is blank and was never tested
C28_Witness ==
    \E r \in Requests :
        /\ Regenerated(r)
        /\ result[r].status = 200
        /\ result[r].body.response = T_blank
        /\ ~steps[r].validation.is_valid

\* the registered available providers in the priority order
PriorityCandidates == SelectSeq(provider_priority, Available)

\* the regeneration of request r, as logged: it names no preferred provider,
\* its candidates are the priority order, and they are called in that order
RegenerationByPriority(r) ==
    \A i \in ManagerInvocations(r) :
        manager_log[r][i].caller = "validation" =>
            LET calls == SelectSeq(CallLog(r, manager_log[r][i].call),
                                   LAMBDA e : e.ev = "call")
            IN  /\ manager_log[r][i].preferred = NULL
                /\ manager_log[r][i].providers_to_try = PriorityCandidates
                /\ Len(calls) <= Len(PriorityCandidates)
                /\ \A k \in DOMAIN calls : calls[k].provider = PriorityCandidates[k]

\* the step of the validation phase that starts the regeneration
StartsRegeneration(r) ==
    /\ pc[r] = "validation"
    /\ pc'[r] \in {"manager", "validation_resume"}

\* C29: the regeneration started by the validation phase calls the Provider
\* Manager with no preferred provider: whatever provider the request asked for,
\* its candidates are the available providers in the fixed priority order and
\* are tried in that order, so that the final response can come from another
\* provider than the available preferred one that answered the first call.
C29_RegenerationIgnoresPreference ==
    /\ [](\A r \in Requests : request[r].kind = "chat" => RegenerationByPriority(r))
    /\ [][\A r \in Requests :
            StartsRegeneration(r) =>
                /\ frame'[r].caller = "validation"
                /\ frame'[r].providers_to_try = PriorityCandidates
                /\ (PriorityCandidates # <<>>) =>
                      /\ frame'[r].idx = 1
                      /\ manager_log'[r][Len(manager_log'[r])].provider =
                            PriorityCandidates[1]]_vars

\* the preferred provider anthropic answered the first call, and the returned
\* response is the regenerated one, which groq gave
C29_Witness ==
    \E r \in Requests :
        /\ request[r].provider = "anthropic"
        /\ Available("anthropic")
        /\ Regenerated(r)
        /\ heap[r][steps[r].generation.llm_response].provider = "anthropic"
        /\ result[r].status = 200
        /\ result[r].body.provider = "groq"

\* the adapter calls logged in L for provider p
AdapterCalls(L, p) == {i \in EventsOf(L, "call") : L[i].provider = p}

\* the generate_response call of request r is awaiting an adapter
ManagerRunning(r) == frame[r].call > 0 /\ frame[r].outcome.kind = "pending"

\* every generate_response call has called each registered adapter at most once
\* and no other, and the run has called each at most twice
BoundedAdapterCalls(r) ==
    /\ frame[r].call <= 2
    /\ \A p \in LLMProvider :
          /\ \A n \in 1..frame[r].call : Cardinality(AdapterCalls(CallLog(r, n), p)) <= 1
          /\ Cardinality(AdapterCalls(manager_log[r], p)) <= 2
          /\ AdapterCalls(manager_log[r], p) # {} => p \in DOMAIN providers

\* C30: when every adapter call returns or raises, a generate_response call
\* ends (it returns a response or raises) after calling each registered adapter
\* at most once, and a pipeline run ends with an answer after at most two
\* adapter calls per registered provider.
C30_Terminates ==
    /\ [](\A r \in Requests : request[r].kind = "chat" => BoundedAdapterCalls(r))
    /\ \A r \in Requests : ManagerRunning(r) ~> ~ManagerRunning(r)
    /\ \A r \in Requests : (request[r].kind = "chat") ~> (result[r].status # 0)

\* a run ended after both of its generate_response calls had called groq and
\* openai, the first of them in vain each time
C30_Witness ==
    \E r \in Requests :
        /\ result[r].status = 200
        /\ frame[r].call = 2
        /\ Cardinality(AdapterCalls(manager_log[r], "groq")) = 2
        /\ Cardinality(AdapterCalls(manager_log[r], "openai")) = 2
        /\ Cardinality(EventsOf(manager_log[r], "fail")) = 2
\* ------------------------------------------------------------------------
\* Specifications
\* ------------------------------------------------------------------------

ApiKeys == {"", "sk-key"}

\* the settings and SDK installations the service can start with
Setups ==
    [api_keys : [Range(provider_priority) -> ApiKeys],
     sdk_ok : [Range(provider_priority) -> BOOLEAN]]

\* the state after the module-level ai_service was constructed, with the
\* requests of active waiting to be received
Startup(setups, file_configs, active) ==
    /\ \E setup \in setups :
            providers = InitializeProviders(setup.api_keys, setup.sdk_ok)
    /\ files \in file_configs
    /\ pc = [r \in Requests |-> IF r \in active THEN "idle" ELSE "unused"]
    /\ request = [r \in Requests |-> NoRequest]
    /\ steps = [r \in Requests |-> NoSteps]
    /\ frame = [r \in Requests |-> NoFrame]
    /\ heap = [r \in Requests |-> <<>>]
    /\ search = [r \in Requests |-> NoSearch]
    /\ result = [r \in Requests |-> NoResult]
    /\ manager_log = [r \in Requests |-> <<>>]
    /\ phase_log = [r \in Requests |-> <<>>]

\* one chat request served by the agent pipeline
Init == Startup(Setups, ChatFileConfigs, {1})

Next ==
    \E r \in Requests :
        \/ ChatWithAi(r)
        \/ PhaseCategorization(r)
        \/ PhaseResponseGeneration(r)
        \/ AdapterReturns(r)
        \/ AdapterRaises(r)
        \/ GenerationResume(r)
        \/ PhaseValidation(r)
        \/ ValidationResume(r)
        \/ PhaseImplementation(r)
        \/ ReturnResponse(r)

Spec == Init /\ [][Next]_vars

\* the setups a search request is served under: the SDKs are installed and
\* OpenAI is configured only together with Groq, Anthropic never
SearchSetups ==
    {setup \in Setups :
        /\ \A p \in Range(provider_priority) : setup.sdk_ok[p]
        /\ setup.api_keys["anthropic"] = ""
        /\ setup.api_keys["groq"] = "" => setup.api_keys["openai"] = ""}

\* one search request served by the search orchestrator
InitSearch == Startup(SearchSetups, SearchFileConfigs, {1})

NextSearch ==
    \E r \in Requests :
        \/ SearchContent(r)
        \/ SemanticSearch(r)
        \/ AdapterReturns(r)
        \/ AdapterRaises(r)
        \/ SummaryResume(r)
        \/ AnswerResume(r)

SpecSearch == InitSearch /\ [][NextSearch]_vars

\* the setup without any API key
NoKeys ==
    {setup \in Setups :
        \A p \in Range(provider_priority) : setup.api_keys[p] = "" /\ setup.sdk_ok[p]}

\* classification requests, every request of the model active
InitClassify == Startup(NoKeys, {AllFilesOk}, Requests)

NextClassify == \E r \in Requests : ClassifyEndpoint(r)

SpecClassify == InitClassify /\ [][NextClassify]_vars

\* one search request that gives only its query, over the complete data
InitNavigation == Startup(SearchSetups, {AllFilesOk}, {1})

NextNavigation ==
    \E r \in Requests :
        \/ SearchContentDefaults(r)
        \/ SemanticSearch(r)
        \/ AdapterReturns(r)
        \/ AdapterRaises(r)
        \/ SummaryResume(r)
        \/ AnswerResume(r)

SpecNavigation == InitNavigation /\ [][NextNavigation]_vars

\* status requests under every setup
InitStatus == Startup(Setups, {AllFilesOk}, Requests)

NextStatus == \E r \in Requests : StatusEndpoint(r)

SpecStatus == InitStatus /\ [][NextStatus]_vars

\* the setup with Groq alone configured
GroqOnly ==
    {setup \in SearchSetups :
        setup.api_keys["groq"] # "" /\ setup.api_keys["openai"] = ""}

\* the search queries of the concurrently served requests
ConcurrentQueries == {Q_show, M_question}

\* two requests served concurrently, each a chat without a preferred provider
\* or a search that gives only its query; any step of either can come next
InitConcurrent == Startup(GroqOnly, {AllFilesOk}, {1, 2})

NextConcurrent ==
    \E r \in Requests :
        \/ ChatWithAi(r) /\ request'[r].provider = NULL
        \/ SearchContentDefaults(r) /\ request'[r].message \in ConcurrentQueries
        \/ PhaseCategorization(r)
        \/ PhaseResponseGeneration(r)
        \/ AdapterReturns(r)
        \/ AdapterRaises(r)
        \/ GenerationResume(r)
        \/ PhaseValidation(r)
        \/ ValidationResume(r)
        \/ PhaseImplementation(r)
        \/ ReturnResponse(r)
        \/ SemanticSearch(r)
        \/ SummaryResume(r)
        \/ AnswerResume(r)

SpecConcurrent == InitConcurrent /\ [][NextConcurrent]_vars

\* the texts the adapters answer with in the runs checked for termination
TerminationTexts == {T_blank, T_project}

\* one chat request for "hi", with the SDKs installed
InitTermination == Startup(SearchSetups, ChatFileConfigs, {1})

NextTermination ==
    \E r \in Requests :
        \/ ChatWithAi(r) /\ request'[r].message = M_hi
        \/ PhaseCategorization(r)
        \/ PhaseResponseGeneration(r)
        \/ AdapterReturns(r) /\ heap'[r][Len(heap'[r])].response \in TerminationTexts
        \/ AdapterRaises(r)
        \/ GenerationResume(r)
        \/ PhaseValidation(r)
        \/ ValidationResume(r)
        \/ PhaseImplementation(r)
        \/ ReturnResponse(r)

\* the event loop's scheduling: a request that can take a step eventually
\* takes one, and an awaited adapter call returns or raises
Scheduling == WF_vars(NextTermination)

SpecTermination == InitTermination /\ [][NextTermination]_vars /\ Scheduling

\* one request to the data router, over every data directory
InitData == Startup(NoKeys, DataFileConfigs, {1})

NextData == \E r \in Requests : DataEndpoint(r)

SpecData == InitData /\ [][NextData]_vars

\* health requests under every setup
NextHealth == \E r \in Requests : HealthCheck(r)

SpecHealth == InitStatus /\ [][NextHealth]_vars

====
